---- MODULE Spec2Model ----
(***************************************************************************)
(* A model of the GitHub MCP servers of ghostmind-dev/mcps:                *)
(*   - the path resolver and the folder guard (pure string functions),     *)
(*   - the bearer-token gate of the HTTP handler,                          *)
(*   - the branch allocator createBranchWithRetry,                         *)
(*   - the catalog-based tool executors and the requests they send.        *)
(* Strings are TLA+ strings; Len, SubSeq and \o act on them character by   *)
(* character, so every string function below is computed as the code does. *)
(***************************************************************************)
EXTENDS Integers, Sequences, FiniteSets, TLC

VARIABLES
  pfn, parg, pres,                  \* path functions: function applied, its arguments, its result
  hreq, hresp,                      \* HTTP gate: the request received, the response and what ran
  serverToken, variant, alive,      \* HTTP gate: SERVER_TOKEN, which server file, process running
  tool, cfg, args, reqs, result,    \* executors: tool run, credentials, arguments, requests, outcome
  epc, loc, env,                    \* executors: position, local variables, the process environment
  pc, attempt, branchName, maxAtt,  \* add-or-update calls: position, allocator loop state
  fileExists, log, outcome,         \* add-or-update calls: probe result, request log, final outcome
  preBranches, tookOver,            \* add-or-update calls: branches at allocation start, take-overs
  existingSha, baseSha,             \* add-or-update calls: the file's sha at the probe, main's at the ref read
  branches, openPRs,                \* the remote repository: branch owners, heads of open pull requests
  mainHead                          \* the remote repository: the commit main points at

pathVars == <<pfn, parg, pres>>
gateVars == <<hreq, hresp, serverToken, variant, alive>>
execVars == <<tool, cfg, args, reqs, result, epc, loc, env>>
callVars ==
  <<pc, attempt, branchName, maxAtt, fileExists, log, outcome, preBranches, tookOver,
    existingSha, baseSha>>
remoteVars == <<branches, openPRs, mainHead>>
vars == <<pathVars, gateVars, execVars, callVars, remoteVars>>

----------------------------------------------------------------------------
(* JavaScript string primitives.                                           *)

\* an optional string: undefined, or a string
Undefined == [some |-> FALSE, v |-> ""]

Some(s) == [some |-> TRUE, v |-> s]

\* JavaScript truthiness of an optional string: undefined and '' are falsy
Truthy(o) == o.some /\ o.v # ""

Letters ==
  {"a","b","c","d","e","f","g","h","i","j","k","l","m","n","o","p","q","r","s","t","u","v","w","x","y","z",
   "A","B","C","D","E","F","G","H","I","J","K","L","M","N","O","P","Q","R","S","T","U","V","W","X","Y","Z"}

Digits == {"0","1","2","3","4","5","6","7","8","9"}

Alnum == Letters \cup Digits

Whitespace == {" ", "\t", "\n"}

CharAt(s, i) == SubSeq(s, i, i)

StartsWith(s, p) == Len(s) >= Len(p) /\ SubSeq(s, 1, Len(p)) = p

EndsWith(s, p) == Len(s) >= Len(p) /\ SubSeq(s, Len(s) - Len(p) + 1, Len(s)) = p

\* s.substring(n) with a 0-based start
Substring(s, n) == SubSeq(s, n + 1, Len(s))

\* 1-based index of the first occurrence of sub in s, 0 when there is none
IndexOf(s, sub) ==
  LET hits == {i \in 1..(Len(s) - Len(sub) + 1) : SubSeq(s, i, i + Len(sub) - 1) = sub}
  IN  IF hits = {} THEN 0 ELSE CHOOSE i \in hits : \A j \in hits : i <= j

Includes(s, sub) == IndexOf(s, sub) # 0

RECURSIVE Split(_, _)
Split(s, sep) ==
  LET i == IndexOf(s, sep)
  IN  IF i = 0 THEN <<s>>
      ELSE <<SubSeq(s, 1, i - 1)>> \o Split(SubSeq(s, i + Len(sep), Len(s)), sep)

RECURSIVE Join(_, _)
Join(parts, sep) ==
  IF Len(parts) = 0 THEN ""
  ELSE IF Len(parts) = 1 THEN parts[1]
  ELSE parts[1] \o sep \o Join(Tail(parts), sep)

\* s.replace(/^\/+/, '')
RECURSIVE StripLeadingSlashes(_)
StripLeadingSlashes(s) ==
  IF Len(s) > 0 /\ CharAt(s, 1) = "/" THEN StripLeadingSlashes(SubSeq(s, 2, Len(s))) ELSE s

\* s.replace(/\/+$/, '')
RECURSIVE StripTrailingSlashes(_)
StripTrailingSlashes(s) ==
  IF Len(s) > 0 /\ CharAt(s, Len(s)) = "/" THEN StripTrailingSlashes(SubSeq(s, 1, Len(s) - 1)) ELSE s

RECURSIVE TrimLeft(_)
TrimLeft(s) ==
  IF Len(s) > 0 /\ CharAt(s, 1) \in Whitespace THEN TrimLeft(SubSeq(s, 2, Len(s))) ELSE s

RECURSIVE TrimRight(_)
TrimRight(s) ==
  IF Len(s) > 0 /\ CharAt(s, Len(s)) \in Whitespace THEN TrimRight(SubSeq(s, 1, Len(s) - 1)) ELSE s

Trim(s) == TrimRight(TrimLeft(s))

\* the file test written without its anchor and character class: any dot counts
fileExtensionRegex_AnyDot(s) == Includes(s, ".")

\* /\.[a-zA-Z0-9]+$/.test(s)
fileExtensionRegex(s) ==
  \E i \in 1..(Len(s) - 1) :
    /\ CharAt(s, i) = "."
    /\ \A j \in (i + 1)..Len(s) : CharAt(s, j) \in Alnum

\* /^[a-zA-Z0-9._-]+$/.test(s)
validRepoRegex(s) ==
  /\ Len(s) > 0
  /\ \A i \in 1..Len(s) : CharAt(s, i) \in Alnum \cup {".", "_", "-"}

\* s.toLowerCase(), for the ASCII letters
RECURSIVE ToLowerCase(_)
ToLowerCase(s) ==
  IF s = "" THEN ""
  ELSE LET i == IndexOf("ABCDEFGHIJKLMNOPQRSTUVWXYZ", CharAt(s, 1))
       IN  (IF i # 0 THEN CharAt("abcdefghijklmnopqrstuvwxyz", i) ELSE CharAt(s, 1))
             \o ToLowerCase(SubSeq(s, 2, Len(s)))

\* parts.slice(from) with a 0-based start
SliceFrom(parts, from) == SubSeq(parts, from + 1, Len(parts))

\* parts.slice(0, -1)
DropLast(parts) == SubSeq(parts, 1, Len(parts) - 1)

----------------------------------------------------------------------------
(* Path Resolver and Folder Guard (docs/app/tools/github.ts).              *)

\* a returned value, or a thrown Error with the kind of its message
Ok(v) == [ok |-> TRUE, val |-> v, err |-> ""]

Err(e) == [ok |-> FALSE, val |-> "", err |-> e]

\* CleanPath with the suffix test written 'git', without its dot
CleanPath_GitNoDot(repoPath) ==
  LET c1 == StripTrailingSlashes(StripLeadingSlashes(Trim(repoPath)))
      c2 == IF StartsWith(c1, "https://") THEN Substring(c1, 8)
            ELSE IF StartsWith(c1, "http://") THEN Substring(c1, 7)
            ELSE c1
      c3 == IF StartsWith(c2, "github.com/") THEN Substring(c2, Len("github.com/")) ELSE c2
  IN  IF EndsWith(c3, "git") THEN SubSeq(c3, 1, Len(c3) - 4) ELSE c3

\* the prefix and suffix stripping at the head of parseGitHubRepoPath
CleanPath(repoPath) ==
  LET c1 == StripTrailingSlashes(StripLeadingSlashes(Trim(repoPath)))
      c2 == IF StartsWith(c1, "https://") THEN Substring(c1, 8)
            ELSE IF StartsWith(c1, "http://") THEN Substring(c1, 7)
            ELSE c1
      c3 == IF StartsWith(c2, "github.com/") THEN Substring(c2, Len("github.com/")) ELSE c2
  IN  IF EndsWith(c3, ".git") THEN SubSeq(c3, 1, Len(c3) - 4) ELSE c3

\* PathDescriptor with the folder of a file set to the whole path, as for a folder
PathDescriptor_FolderWhole(fullPath, pathParts) ==
  IF fileExtensionRegex(fullPath)
  THEN [folder |-> Some(fullPath), specificFile |-> Some(fullPath), isFile |-> TRUE]
  ELSE [folder |-> Some(fullPath), specificFile |-> Undefined, isFile |-> FALSE]

\* folder, specificFile and isFile of a path that follows owner/repo
PathDescriptor(fullPath, pathParts) ==
  IF fileExtensionRegex(fullPath)
  THEN [folder |-> IF Len(pathParts) > 1 THEN Some(Join(DropLast(pathParts), "/")) ELSE Undefined,
        specificFile |-> Some(fullPath),
        isFile |-> TRUE]
  ELSE [folder |-> Some(fullPath), specificFile |-> Undefined, isFile |-> FALSE]

NoPath == [folder |-> Undefined, specificFile |-> Undefined, isFile |-> FALSE]

\* the final validation with the test of the owner's characters left out
ValidateOwnerRepo_OwnerUnchecked(owner, repo, p) ==
  IF owner = "" \/ repo = "" THEN Err("InvalidPath: owner and repo cannot be empty")
  ELSE IF ~validRepoRegex(repo) THEN Err("InvalidPath: invalid repo name")
  ELSE Ok([owner |-> owner, repo |-> repo, folder |-> p.folder,
           specificFile |-> p.specificFile, isFile |-> p.isFile])

\* the final validation of owner and repo
ValidateOwnerRepo(owner, repo, p) ==
  IF owner = "" \/ repo = "" THEN Err("InvalidPath: owner and repo cannot be empty")
  ELSE IF ~validRepoRegex(owner) THEN Err("InvalidPath: invalid owner name")
  ELSE IF ~validRepoRegex(repo) THEN Err("InvalidPath: invalid repo name")
  ELSE Ok([owner |-> owner, repo |-> repo, folder |-> p.folder,
           specificFile |-> p.specificFile, isFile |-> p.isFile])

parseGitHubRepoPath(repoPath) ==
  IF repoPath = "" THEN Err("InvalidPath: repo path is required")
  ELSE
    LET cleanPath == CleanPath(repoPath) IN
    IF Includes(cleanPath, "/tree/")
    THEN
      LET treeParts == Split(cleanPath, "/tree/") IN
      IF Len(treeParts) # 2 THEN Err("InvalidPath: invalid tree URL format")
      ELSE
        LET repoParts == Split(treeParts[1], "/")
            branchFolderParts == Split(treeParts[2], "/")
        IN
        IF Len(repoParts) < 2 THEN Err("InvalidPath: invalid repo path in tree URL")
        ELSE
          LET fullPath == Join(SliceFrom(branchFolderParts, 1), "/")
              p == IF Len(branchFolderParts) > 1
                   THEN PathDescriptor(fullPath, Split(fullPath, "/"))
                   ELSE NoPath
          IN  ValidateOwnerRepo(repoParts[1], repoParts[2], p)
    ELSE
      LET parts == Split(cleanPath, "/") IN
      IF Len(parts) < 2 THEN Err("InvalidPath: invalid repo path format")
      ELSE
        LET pathParts == SliceFrom(parts, 2)
            p == IF Len(parts) > 2
                 THEN PathDescriptor(Join(pathParts, "/"), pathParts)
                 ELSE NoPath
        IN  ValidateOwnerRepo(parts[1], parts[2], p)

\* validatePath with the prefix test made on the folder alone, without the "/"
validatePath_NoSeparator(path, allowedFolder) ==
  IF ~Truthy(allowedFolder) THEN TRUE
  ELSE
    LET normalizedPath == StripTrailingSlashes(StripLeadingSlashes(path))
        normalizedFolder == StripTrailingSlashes(StripLeadingSlashes(allowedFolder.v))
    IN  StartsWith(normalizedPath, normalizedFolder)

\* allowedFolder is an optional string, path a string
validatePath(path, allowedFolder) ==
  IF ~Truthy(allowedFolder) THEN TRUE
  ELSE
    LET normalizedPath == StripTrailingSlashes(StripLeadingSlashes(path))
        normalizedFolder == StripTrailingSlashes(StripLeadingSlashes(allowedFolder.v))
    IN  StartsWith(normalizedPath, normalizedFolder \o "/") \/ normalizedPath = normalizedFolder

\* enforceFolderSecurity that lets every path through
enforceFolderSecurity_NeverDenies(path, allowedFolder) == Ok(path)

enforceFolderSecurity(path, allowedFolder) ==
  IF ~Truthy(allowedFolder) THEN Ok(path)
  ELSE IF ~validatePath(path, allowedFolder)
  THEN Err("Access denied: Path \"" \o path \o "\" is outside the allowed folder \""
             \o allowedFolder.v \o "\"")
  ELSE Ok(path)

\* ensurePathInFolder without its test: the folder is prepended every time
ensurePathInFolder_AlwaysPrepend(path, allowedFolder) ==
  IF ~Truthy(allowedFolder) THEN path
  ELSE StripTrailingSlashes(StripLeadingSlashes(allowedFolder.v)) \o "/" \o StripLeadingSlashes(path)

ensurePathInFolder(path, allowedFolder) ==
  IF ~Truthy(allowedFolder) THEN path
  ELSE
    LET normalizedPath == StripLeadingSlashes(path)
        normalizedFolder == StripTrailingSlashes(StripLeadingSlashes(allowedFolder.v))
    IN  IF ~StartsWith(normalizedPath, normalizedFolder \o "/") /\ normalizedPath # normalizedFolder
        THEN normalizedFolder \o "/" \o normalizedPath
        ELSE normalizedPath

----------------------------------------------------------------------------
(* Applying the path functions to inputs drawn from bounded sets.          *)

OwnerNames == {"o", "github.com", "a-b_c.d", "x.", "tree", "O9"}

RepoNames == {"r", "r.git", ".git", "git", "it", "tree", "a.b", "r.git.git", "R_1-x"}

\* declared repository paths: the catalog's forms, URL forms, tree forms, malformed ones
RepoPathInputs ==
  {"o/r", "o/r/d", "o/r/d/", "o/r/d/e", "o/r/f.md", "o/r/d/f.md", "o/r/d/e/f.mdc",
   "/o/r/d", " o/r/d ", "o/r//d", "o/r/.git", "o/r/d.git", "o/r/d/f.",
   "https://github.com/o/r", "http://github.com/o/r/d", "github.com/o/r.git",
   "https://github.com/o/r/tree/main", "https://github.com/o/r/tree/main/d/e",
   "o/r/tree/main/d/f.md", "o/r/tree/main/f.md", "o/r/tree/main/tree/d", "o/r/tree/main/d/tree/e",
   "o/tree/main/d", "/tree/main", "o", "", "o@x/r", "o/r x", "o//d", "ftp://github.com/o/r",
   "o/r@x/d", "o@x/r/tree/main/d", "https://github.com/o", "o/.git", "github.com//tree/main"}

\* folder restrictions: none, empty, plain, nested, with surrounding slashes
FolderInputs == {Undefined, Some(""), Some("d"), Some("d/e"), Some("/d/"), Some("/d"), Some("/")}

\* candidate paths, with and without "." and ".." segments
PathInputs ==
  {"d", "d/", "d/x.md", "d/e/x.md", "/d/x.md", "//d/x.md", "o/x.md", "x.md", "dd/x.md", "de",
   "d/../o/x.md", "d/./x.md", "d/e/../x.md", "d/e/../../x.md", "../x.md", "d/..", "", "/"}

PathParked == pfn = "idle" /\ parg = <<>> /\ pres = <<>>

ApplyParse ==
  /\ UNCHANGED <<gateVars, execVars, callVars, remoteVars>>
  /\ pfn = "idle"
  /\ \E raw \in RepoPathInputs :
       /\ pfn' = "parse"
       /\ parg' = <<raw>>
       /\ pres' = parseGitHubRepoPath(raw)

ApplyParseOwnerRepo ==
  /\ UNCHANGED <<gateVars, execVars, callVars, remoteVars>>
  /\ pfn = "idle"
  /\ \E o \in OwnerNames, r \in RepoNames :
       /\ pfn' = "parseOwnerRepo"
       /\ parg' = <<o, r>>
       /\ pres' = parseGitHubRepoPath(o \o "/" \o r)

ApplyEnforce ==
  /\ UNCHANGED <<gateVars, execVars, callVars, remoteVars>>
  /\ pfn = "idle"
  /\ \E p \in PathInputs, f \in FolderInputs :
       /\ pfn' = "enforce"
       /\ parg' = <<p, f>>
       /\ pres' = enforceFolderSecurity(p, f)

ApplyEnsure ==
  /\ UNCHANGED <<gateVars, execVars, callVars, remoteVars>>
  /\ pfn = "idle"
  /\ \E p \in PathInputs, f \in FolderInputs :
       /\ pfn' = "ensure"
       /\ parg' = <<p, f>>
       /\ pres' = Ok(ensurePathInFolder(p, f))

\* ensurePathInFolder applied to what it returned, with the same folder; the
\* first path is kept as a third argument
ApplyEnsureAgain ==
  /\ UNCHANGED <<gateVars, execVars, callVars, remoteVars>>
  /\ pfn = "ensure"
  /\ pfn' = "ensureAgain"
  /\ parg' = <<pres.val, parg[2], parg[1]>>
  /\ pres' = Ok(ensurePathInFolder(pres.val, parg[2]))

\* paths that follow owner/repo, or the branch of a tree URL: none, folders,
\* files, dotted names that are no files, a ".git" ending, segments named "tree"
PathPartInputs ==
  {"", "d", "d/e", "f.md", "d/f.md", "a/b/file.json", "d/e/f.mdc", ".md", "d/f.", "d.e/f",
   "d.git", "d/x.git", "d//e", "d/tree/e", "tree/d", "d/tree"}

\* the three written forms of a catalog path
FormInputs == {"plain", "tree", "treeUrl"}

\* the catalog path of owner o, repository r and path p in the given form
RawPath(o, r, p, form) ==
  LET rest == IF p = "" THEN "" ELSE "/" \o p
  IN  CASE form = "plain" -> o \o "/" \o r \o rest
        [] form = "tree" -> o \o "/" \o r \o "/tree/main" \o rest
        [] form = "treeUrl" -> "https://github.com/" \o o \o "/" \o r \o "/tree/main" \o rest

ApplyParsePath ==
  /\ UNCHANGED <<gateVars, execVars, callVars, remoteVars>>
  /\ pfn = "idle"
  /\ \E o \in {"o", "github.com"}, p \in PathPartInputs, form \in FormInputs :
       /\ pfn' = "parsePath"
       /\ parg' = <<o, "r", p, form>>
       /\ pres' = parseGitHubRepoPath(RawPath(o, "r", p, form))

----------------------------------------------------------------------------
(* The content encoders. A text is the sequence of its UTF-16 code units    *)
(* (all of the Basic Multilingual Plane here), a binary string the sequence *)
(* of its bytes, a base64 text a string.                                    *)

Base64Alphabet == "ABCDEFGHIJKLMNOPQRSTUVWXYZabcdefghijklmnopqrstuvwxyz0123456789+/"

\* new TextEncoder().encode(str), for code points below 0x10000
RECURSIVE Utf8Encode(_)
Utf8Encode(str) ==
  IF str = <<>> THEN <<>>
  ELSE LET cp == Head(str)
           bytes == IF cp < 128 THEN <<cp>>
                    ELSE IF cp < 2048 THEN <<192 + (cp \div 64), 128 + (cp % 64)>>
                    ELSE <<224 + (cp \div 4096), 128 + ((cp \div 64) % 64), 128 + (cp % 64)>>
       IN  bytes \o Utf8Encode(Tail(str))

\* the base64 digits of a sequence of bytes, three bytes to four digits, padded with "="
RECURSIVE Base64Digits(_)
Base64Digits(b) ==
  IF b = <<>> THEN ""
  ELSE LET n == Len(b)
           b2 == IF n >= 2 THEN b[2] ELSE 0
           b3 == IF n >= 3 THEN b[3] ELSE 0
       IN  CharAt(Base64Alphabet, (b[1] \div 4) + 1)
             \o CharAt(Base64Alphabet, (b[1] % 4) * 16 + (b2 \div 16) + 1)
             \o (IF n >= 2 THEN CharAt(Base64Alphabet, (b2 % 16) * 4 + (b3 \div 64) + 1) ELSE "=")
             \o (IF n >= 3 THEN CharAt(Base64Alphabet, (b3 % 64) + 1) ELSE "=")
             \o Base64Digits(SubSeq(b, 4, n))

\* btoa(binary): throws when a code unit is above 0xFF
btoa(binary) ==
  IF \E i \in 1..Len(binary) : binary[i] > 255 THEN Err("InvalidCharacterError")
  ELSE Ok(Base64Digits(binary))

\* encodeBase64 of the catalog executors: the UTF-8 bytes, one code unit each, through btoa
encodeBase64(str) == btoa(Utf8Encode(str))

\* atob(b64): the binary string, one code unit per byte
RECURSIVE atob(_)
atob(b64) ==
  IF Len(b64) < 4 THEN <<>>
  ELSE LET v1 == IndexOf(Base64Alphabet, CharAt(b64, 1)) - 1
           v2 == IndexOf(Base64Alphabet, CharAt(b64, 2)) - 1
           v3 == IndexOf(Base64Alphabet, CharAt(b64, 3)) - 1
           v4 == IndexOf(Base64Alphabet, CharAt(b64, 4)) - 1
       IN  <<v1 * 4 + (v2 \div 16)>>
             \o (IF CharAt(b64, 3) = "=" THEN <<>> ELSE <<(v2 % 16) * 16 + (v3 \div 4)>>)
             \o (IF CharAt(b64, 4) = "=" THEN <<>> ELSE <<(v3 % 4) * 64 + v4>>)
             \o atob(SubSeq(b64, 5, Len(b64)))

\* the content field of the contents API: the base64 of the stored bytes in
\* lines of 60 digits, each ended by a newline
RECURSIVE ContentField(_)
ContentField(b64) ==
  IF Len(b64) <= 60 THEN b64 \o "\n"
  ELSE SubSeq(b64, 1, 60) \o "\n" \o ContentField(SubSeq(b64, 61, Len(b64)))

\* atob(response.content.replace(/\n/g, '')) of get-content
DecodeContent(content) == atob(Join(Split(content, "\n"), ""))

\* file contents: ASCII letters, a newline, a Latin-1 letter (U+00E9), a
\* letter above U+00FF (U+20AC), up to the length at which base64 needs no padding
ContentInputs ==
  LET Units == {65, 10, 233, 8364}
  IN  {<<>>} \cup {<<a>> : a \in Units} \cup {<<a, b>> : a, b \in Units}
        \cup {<<a, b, c>> : a, b, c \in Units}

\* file_content written by add-or-update (of the catalog executors, or of the
\* single-repository ones, which call btoa directly) and read back by get-content
ApplyRoundTrip ==
  /\ UNCHANGED <<gateVars, execVars, callVars, remoteVars>>
  /\ pfn = "idle"
  /\ \E str \in ContentInputs, v \in {"catalog", "single"} :
       LET encoded == IF v = "catalog" THEN encodeBase64(str) ELSE btoa(str)
       IN  /\ pfn' = "roundTrip"
           /\ parg' = <<str, v>>
           /\ pres' = IF encoded.ok THEN Ok(DecodeContent(ContentField(encoded.val))) ELSE encoded

PathReturn ==
  /\ UNCHANGED <<gateVars, execVars, callVars, remoteVars>>
  /\ pfn # "idle"
  /\ pfn' = "idle" /\ parg' = <<>> /\ pres' = <<>>

----------------------------------------------------------------------------
(* The resting state of each part of the model, for the specifications     *)
(* that do not exercise it.                                                *)

Calls == {1, 2}

GateParked ==
  hreq = <<>> /\ hresp = <<>> /\ serverToken = Undefined /\ variant = "none" /\ alive = "none"

ExecParked ==
  /\ tool = "none" /\ cfg = <<>> /\ args = <<>> /\ reqs = <<>> /\ result = <<>>
  /\ epc = "parked" /\ loc = <<>> /\ env = <<>>

\* existingSha = '' and baseSha before they are read
NoSha == -1

CallsParked ==
  /\ pc = [c \in Calls |-> "parked"]
  /\ attempt = [c \in Calls |-> 0]
  /\ branchName = [c \in Calls |-> ""]
  /\ maxAtt = [c \in Calls |-> 0]
  /\ fileExists = [c \in Calls |-> FALSE]
  /\ log = [c \in Calls |-> <<>>]
  /\ outcome = [c \in Calls |-> "none"]
  /\ preBranches = [c \in Calls |-> {}]
  /\ tookOver = [c \in Calls |-> {}]
  /\ existingSha = [c \in Calls |-> NoSha]
  /\ baseSha = [c \in Calls |-> NoSha]

RemoteParked == branches = {} /\ openPRs = {} /\ mainHead = 0

----------------------------------------------------------------------------
(* SpecPath: the path functions applied to every input of the sets above.  *)

InitPath == PathParked /\ GateParked /\ ExecParked /\ CallsParked /\ RemoteParked

NextPath ==
  \/ ApplyParse \/ ApplyParseOwnerRepo \/ ApplyParsePath
  \/ ApplyEnforce \/ ApplyEnsure \/ ApplyEnsureAgain
  \/ ApplyRoundTrip
  \/ PathReturn

SpecPath == InitPath /\ [][NextPath]_vars

----------------------------------------------------------------------------
(* Claims about the path functions.                                        *)

\* the segments a path denotes once its empty, "." and ".." segments are resolved;
\* escaped when a ".." climbs above the start
RECURSIVE ResolveSegs(_, _, _)
ResolveSegs(segs, acc, esc) ==
  IF segs = <<>> THEN [escaped |-> esc, segs |-> acc]
  ELSE LET h == Head(segs) IN
       IF h = "" \/ h = "." THEN ResolveSegs(Tail(segs), acc, esc)
       ELSE IF h = ".."
            THEN IF acc = <<>> THEN ResolveSegs(Tail(segs), acc, TRUE)
                 ELSE ResolveSegs(Tail(segs), DropLast(acc), esc)
       ELSE ResolveSegs(Tail(segs), Append(acc, h), esc)

ResolveDots(path) == ResolveSegs(Split(path, "/"), <<>>, FALSE)

\* the location path denotes lies in folder or below it
DenotesInside(path, folder) ==
  LET rp == ResolveDots(path)
      rf == ResolveDots(folder)
  IN  /\ ~rp.escaped
      /\ Len(rp.segs) >= Len(rf.segs)
      /\ SubSeq(rp.segs, 1, Len(rf.segs)) = rf.segs

\* C2: a path accepted by enforceFolderSecurity(p, F), or returned by
\* ensurePathInFolder(p, F), denotes a location inside F once its "." and ".."
\* segments are resolved.
C2_PathStaysInFolder ==
  (pfn \in {"enforce", "ensure"} /\ Truthy(parg[2]) /\ pres.ok)
    => DenotesInside(pres.val, parg[2].v)

\* C10 as stated: every owner/repo of valid characters parses to exactly
\* {owner, repo, folder: undefined, specificFile: undefined, isFile: false}.
C10_RoundTripAllValid ==
  (pfn = "parseOwnerRepo" /\ validRepoRegex(parg[1]) /\ validRepoRegex(parg[2]))
    => /\ pres.ok
       /\ pres.val = [owner |-> parg[1], repo |-> parg[2], folder |-> Undefined,
                      specificFile |-> Undefined, isFile |-> FALSE]

\* C10 amended: the same, for every valid owner other than "github.com" and
\* every valid repo that does not end in ".git".
C10_RoundTrip ==
  (/\ pfn = "parseOwnerRepo"
   /\ validRepoRegex(parg[1]) /\ validRepoRegex(parg[2])
   /\ parg[1] # "github.com" /\ ~EndsWith(parg[2], ".git"))
    => /\ pres.ok
       /\ pres.val = [owner |-> parg[1], repo |-> parg[2], folder |-> Undefined,
                      specificFile |-> Undefined, isFile |-> FALSE]

\* a dotted owner and a repo named "git" went through the parser and came back unchanged
C10_Witness ==
  /\ pfn = "parseOwnerRepo"
  /\ parg = <<"a-b_c.d", "git">>
  /\ pres.ok
  /\ pres.val.owner = "a-b_c.d" /\ pres.val.repo = "git" /\ pres.val.folder = Undefined

\* the last segment of a path
LastSegment(p) == LET segs == Split(p, "/") IN segs[Len(segs)]

\* seg ends in "." followed by one or more alphanumerics
EndsInExtension(seg) ==
  LET dots == {i \in 1..Len(seg) : CharAt(seg, i) = "."}
  IN  /\ dots # {}
      /\ LET k == CHOOSE i \in dots : \A j \in dots : j <= i
         IN  k < Len(seg) /\ \A j \in (k + 1)..Len(seg) : CharAt(seg, j) \in Alnum

\* what C11 says the descriptor of path p holds
DescribedAs(d, p) ==
  LET segs == Split(p, "/") IN
  IF EndsInExtension(LastSegment(p))
  THEN /\ d.isFile /\ d.specificFile = Some(p)
       /\ d.folder = IF Len(segs) > 1 THEN Some(Join(DropLast(segs), "/")) ELSE Undefined
  ELSE ~d.isFile /\ d.specificFile = Undefined /\ d.folder = Some(p)

C12_TreeUrlAnyFolder ==
  (/\ pfn = "parsePath" /\ parg[4] \in {"tree", "treeUrl"}
   /\ parg[1] # "github.com" /\ ~EndsWith(parg[3], ".git"))
    => /\ pres.ok
       /\ pres.val.owner = parg[1] /\ pres.val.repo = parg[2]
       /\ IF parg[3] = ""
          THEN pres.val.folder = Undefined /\ pres.val.specificFile = Undefined /\ ~pres.val.isFile
          ELSE IF pres.val.isFile THEN pres.val.specificFile = Some(parg[3])
          ELSE pres.val.folder = Some(parg[3])

\* the string handed to parseGitHubRepoPath in the current state
RawArg ==
  CASE pfn = "parse" -> parg[1]
    [] pfn = "parseOwnerRepo" -> parg[1] \o "/" \o parg[2]
    [] pfn = "parsePath" -> RawPath(parg[1], parg[2], parg[3], parg[4])

\* non-empty and made of letters, digits, ".", "_" and "-" only
ValidName(s) == s # "" /\ \A i \in 1..Len(s) : CharAt(s, i) \in Alnum \cup {".", "_", "-"}

\* C13: when the path left after prefix stripping has fewer than two segments,
\* or its owner or repo segment is empty or has a character outside
\* [A-Za-z0-9._-], parseGitHubRepoPath fails with an invalid-path error and
\* returns no descriptor; and every descriptor it returns has a non-empty owner
\* and repo of that character set.
C13_InvalidPathRejected ==
  pfn \in {"parse", "parseOwnerRepo", "parsePath"}
    => LET segs == Split(CleanPath(RawArg), "/") IN
       /\ (Len(segs) < 2 \/ ~ValidName(segs[1]) \/ ~ValidName(segs[2]))
            => ~pres.ok /\ StartsWith(pres.err, "InvalidPath")
       /\ pres.ok => ValidName(pres.val.owner) /\ ValidName(pres.val.repo)

\* a path whose owner holds an "@" was rejected for its owner name
C13_Witness ==
  /\ pfn = "parse" /\ parg = <<"o@x/r">>
  /\ ~pres.ok /\ pres.err = "InvalidPath: invalid owner name"

\* C14: in every descriptor parseGitHubRepoPath returns, isFile is true exactly
\* when specificFile is set, and when isFile is true and a folder is present
\* the folder is the parent directory of specificFile, that is
\* specificFile = folder + "/" + the last segment of specificFile.
C14_DescriptorInvariant ==
  (pfn \in {"parse", "parseOwnerRepo", "parsePath"} /\ pres.ok)
    => LET d == pres.val IN
       /\ d.isFile <=> d.specificFile.some
       /\ (d.isFile /\ d.folder.some)
            => d.specificFile.v = d.folder.v \o "/" \o LastSegment(d.specificFile.v)

\* a catalog path naming a file inside a folder gave the folder as its parent
C14_Witness ==
  /\ pfn = "parse" /\ parg = <<"o/r/d/e/f.mdc">>
  /\ pres.ok /\ pres.val.isFile
  /\ pres.val.folder = Some("d/e") /\ pres.val.specificFile = Some("d/e/f.mdc")

\* s without its leading and trailing slashes
Unslashed(s) == StripTrailingSlashes(StripLeadingSlashes(s))

\* s between double quotes, as an error message names it
Quoted(s) == "\"" \o s \o "\""

\* C15: enforceFolderSecurity(p, F) with a folder F returns p when, both
\* stripped of leading and trailing slashes, p equals F or starts with F + "/",
\* and otherwise fails with an access-denied error that names p and F; with no
\* folder (undefined or empty) it returns p unchanged.
C15_EnforceAcceptsOrDenies ==
  pfn = "enforce"
    => LET p == parg[1]
           F == parg[2]
       IN  IF ~Truthy(F) THEN pres = Ok(p)
           ELSE IF Unslashed(p) = Unslashed(F.v) \/ StartsWith(Unslashed(p), Unslashed(F.v) \o "/")
           THEN pres = Ok(p)
           ELSE /\ ~pres.ok
                /\ StartsWith(pres.err, "Access denied")
                /\ Includes(pres.err, Quoted(p)) /\ Includes(pres.err, Quoted(F.v))

\* a path in a folder whose name only begins like the allowed one was denied
C15_Witness ==
  /\ pfn = "enforce" /\ parg = <<"dd/x.md", Some("d")>>
  /\ ~pres.ok
  /\ pres.err = "Access denied: Path \"dd/x.md\" is outside the allowed folder \"d\""

\* C16 as stated: ensurePathInFolder(p, F) returns p itself when p lies inside
\* F, and F + "/" + p otherwise; and applied to its own result it returns it.
C16_EnsureReturnsPUnchanged ==
  /\ (pfn = "ensure" /\ Truthy(parg[2]))
       => LET p == parg[1]
              F == parg[2].v
          IN  IF Unslashed(p) = Unslashed(F) \/ StartsWith(Unslashed(p), Unslashed(F) \o "/")
              THEN pres.val = p
              ELSE pres.val = F \o "/" \o p
  /\ pfn = "ensureAgain" => pres.val = parg[1]

\* C16 amended: with p' = p without leading slashes and F' = F without leading
\* and trailing slashes, ensurePathInFolder(p, F) returns p' when p' equals F'
\* or starts with F' + "/", and F' + "/" + p' otherwise; with no folder it
\* returns p; and applied to its own result with the same F it returns it.
C16_EnsureIdempotent ==
  /\ pfn = "ensure"
       => LET p == StripLeadingSlashes(parg[1])
              F == Unslashed(parg[2].v)
          IN  IF ~Truthy(parg[2]) THEN pres.val = parg[1]
              ELSE IF p = F \/ StartsWith(p, F \o "/") THEN pres.val = p
              ELSE pres.val = F \o "/" \o p
  /\ pfn = "ensureAgain" => pres.val = parg[1]

\* a path outside the folder was prefixed, and the prefixed path came back as it was
C16_Witness ==
  /\ pfn = "ensureAgain" /\ parg = <<"d/e/x.md", Some("d/e"), "x.md">>
  /\ pres = Ok("d/e/x.md")

----------------------------------------------------------------------------
(* The bearer-token gate and the JSON-RPC dispatcher. Two server files      *)
(* exist: "catalog" (configs/app/server.ts), which reads SERVER_TOKEN on    *)
(* every request, and "single" (the server at the end of                    *)
(* configs/app/tools/github.ts), which reads it once at startup and exits   *)
(* when it is unset.                                                        *)

\* authenticateRequest of the catalog server; envToken is Deno.env.get('SERVER_TOKEN')
authenticateRequest_AnyBearer(authHeader, envToken) ==
  IF ~Truthy(authHeader) \/ ~StartsWith(authHeader.v, "Bearer ") THEN FALSE
  ELSE TRUE

authenticateRequest(authHeader, envToken) ==
  IF ~Truthy(authHeader) \/ ~StartsWith(authHeader.v, "Bearer ") THEN FALSE
  ELSE LET token == Substring(authHeader.v, 7) IN
       IF ~Truthy(envToken) THEN FALSE
       ELSE token = envToken.v

\* authenticateRequest of the single-repository server; SERVER_TOKEN is the startup constant
authenticateRequestSingle(authHeader, SERVER_TOKEN) ==
  IF ~Truthy(authHeader) THEN FALSE
  ELSE IF ~StartsWith(authHeader.v, "Bearer ") THEN FALSE
  ELSE LET token == Substring(authHeader.v, 7) IN
       IF Some(token) # SERVER_TOKEN THEN FALSE ELSE TRUE

\* the executors each server registers
CatalogExecutors ==
  {"global_docs_list", "global_docs_get_info", "global_docs_list_contents",
   "global_docs_check_file_exists", "global_docs_get_file_content",
   "global_docs_add_or_update_file", "global_docs_smart_add_file"}

SingleExecutors ==
  {"config_list_repo_contents", "config_check_file_exists", "config_get_file_content",
   "config_add_file", "config_smart_add_file"}

\* names of the catalog's configurations; with GITHUB_TOKEN set, getConfiguration
\* finds exactly these
CatalogNames == {"app", "base", "custom", "docker", "infra", "local", "rules"}

\* what a dispatch did: the switch case taken, whether an executor ran, the
\* JSON-RPC error code (0 when a result is returned)
Dispatched(case, ran, code) == [dispatched |-> TRUE, case |-> case, executed |-> ran, code |-> code]

NotDispatched == [dispatched |-> FALSE, case |-> "none", executed |-> FALSE, code |-> 0]

\* handleMCPRequest of the catalog server
handleMCPRequest(body) ==
  IF body.rpc = "initialize" THEN Dispatched("initialize", FALSE, 0)
  ELSE IF body.rpc = "tools/list" THEN Dispatched("tools/list", FALSE, 0)
  ELSE IF body.rpc = "tools/call" THEN
    IF ~(body.name.some /\ body.name.v \in CatalogExecutors)
    THEN Dispatched("tools/call", FALSE, -32601)
    ELSE IF body.name.v = "global_config_list" THEN Dispatched("tools/call", TRUE, 0)
    ELSE IF ~Truthy(body.config) THEN Dispatched("tools/call", FALSE, -32602)
    ELSE IF body.config.v \notin CatalogNames THEN Dispatched("tools/call", FALSE, -32602)
    ELSE Dispatched("tools/call", TRUE, 0)
  ELSE IF body.rpc = "resources/list" THEN Dispatched("resources/list", FALSE, 0)
  ELSE IF body.rpc = "resources/read" THEN
    IF body.uri = Some("test://example") THEN Dispatched("resources/read", FALSE, 0)
    ELSE Dispatched("resources/read", FALSE, -32601)
  ELSE Dispatched("default", FALSE, -32601)

\* handleMCPRequest of the single-repository server
handleMCPRequestSingle(body) ==
  IF body.rpc = "initialize" THEN Dispatched("initialize", FALSE, 0)
  ELSE IF body.rpc = "tools/list" THEN Dispatched("tools/list", FALSE, 0)
  ELSE IF body.rpc = "tools/call" THEN
    IF body.name.some /\ body.name.v \in SingleExecutors
    THEN Dispatched("tools/call", TRUE, 0)
    ELSE Dispatched("tools/call", FALSE, -32601)
  ELSE IF body.rpc = "resources/list" THEN Dispatched("resources/list", FALSE, 0)
  ELSE IF body.rpc = "resources/read" THEN
    IF body.uri = Some("test://example") THEN Dispatched("resources/read", FALSE, 0)
    ELSE Dispatched("resources/read", FALSE, -32601)
  ELSE Dispatched("default", FALSE, -32601)

Response(status, d) == [status |-> status, rpc |-> d]

\* the callback given to Deno.serve, the same in both servers but for the
\* authenticateRequest and handleMCPRequest it calls
ServeHandler(v, envToken, req) ==
  IF req.method = "OPTIONS" THEN Response(200, NotDispatched)
  ELSE IF req.path = "/.well-known/oauth-protected-resource" THEN Response(200, NotDispatched)
  ELSE IF req.path = "/.well-known/oauth-authorization-server" THEN Response(200, NotDispatched)
  ELSE IF req.path # "/mcp" THEN Response(404, NotDispatched)
  ELSE IF ~(IF v = "catalog" THEN authenticateRequest(req.auth, envToken)
                             ELSE authenticateRequestSingle(req.auth, envToken))
       THEN Response(401, NotDispatched)
  ELSE IF req.method = "POST" THEN
    IF req.body.rpc = "(malformed)" THEN Response(400, NotDispatched)
    ELSE Response(200, IF v = "catalog" THEN handleMCPRequest(req.body)
                                         ELSE handleMCPRequestSingle(req.body))
  ELSE Response(405, NotDispatched)

----------------------------------------------------------------------------
(* SpecAuth: both servers, every SERVER_TOKEN setting, requests drawn from  *)
(* bounded sets.                                                            *)

TokenInputs == {Undefined, Some(""), Some("s3cr3t")}

\* Authorization headers: none, empty, right, truncated, extended, wrong case, wrong scheme
AuthInputs ==
  {Undefined, Some(""), Some("Bearer s3cr3t"), Some("Bearer "), Some("Bearer s3cr3"),
   Some("Bearer s3cr3tx"), Some("bearer s3cr3t"), Some("s3cr3t"), Some("Basic s3cr3t"),
   Some("Bearer undefined")}

MethodInputs == {"GET", "POST", "OPTIONS", "DELETE"}

UrlPathInputs ==
  {"/mcp", "/", "/mcp/", "/.well-known/oauth-protected-resource",
   "/.well-known/oauth-authorization-server"}

Body(rpc, name, config, uri) == [rpc |-> rpc, name |-> name, config |-> config, uri |-> uri]

BodyInputs ==
  {Body(m, Undefined, Undefined, Undefined) :
     m \in {"(malformed)", "initialize", "tools/list", "resources/list", "bogus/method"}}
  \cup {Body("tools/call", n, c, Undefined) :
          n \in {Undefined, Some("global_docs_list"), Some("global_docs_get_info"),
                 Some("global_docs_get_file_content"),
                 Some("global_config_list"), Some("config_get_file_content")},
          c \in {Undefined, Some("app"), Some("nope")}}
  \cup {Body("resources/read", Undefined, Undefined, u) :
          u \in {Undefined, Some("test://example"), Some("test://other")}}

RequestInputs ==
  [method : MethodInputs, path : UrlPathInputs, auth : AuthInputs, body : BodyInputs]

\* module load: the single-repository server exits when SERVER_TOKEN is unset;
\* the catalog server starts serving whatever the environment holds
Startup ==
  /\ UNCHANGED <<pathVars, execVars, callVars, remoteVars>>
  /\ alive = "booting"
  /\ alive' = IF variant = "single" /\ ~Truthy(serverToken) THEN "exited" ELSE "serving"
  /\ UNCHANGED <<hreq, hresp, serverToken, variant>>

\* one request through the Deno.serve callback
Serve ==
  /\ UNCHANGED <<pathVars, execVars, callVars, remoteVars>>
  /\ alive = "serving" /\ hreq = <<>>
  /\ \E req \in RequestInputs :
       /\ hreq' = req
       /\ hresp' = ServeHandler(variant, serverToken, req)
  /\ UNCHANGED <<serverToken, variant, alive>>

\* the response is sent and the server waits for the next request
ServeReturn ==
  /\ UNCHANGED <<pathVars, execVars, callVars, remoteVars>>
  /\ alive = "serving" /\ hreq # <<>>
  /\ hreq' = <<>> /\ hresp' = <<>>
  /\ UNCHANGED <<serverToken, variant, alive>>

InitAuth ==
  /\ PathParked /\ ExecParked /\ CallsParked /\ RemoteParked
  /\ hreq = <<>> /\ hresp = <<>>
  /\ serverToken \in TokenInputs
  /\ variant \in {"catalog", "single"}
  /\ alive = "booting"

NextAuth == Startup \/ Serve \/ ServeReturn

SpecAuth == InitAuth /\ [][NextAuth]_vars

\* the request carries exactly "Bearer " followed by the configured SERVER_TOKEN
Authorized == Truthy(serverToken) /\ hreq.auth = Some("Bearer " \o serverToken.v)

\* C3 (first half, and the second half for every method but OPTIONS): a request
\* to /mcp whose Authorization header is not exactly "Bearer " + SERVER_TOKEN has
\* no JSON-RPC method dispatched and no executor invoked, and unless it is an
\* OPTIONS request it is answered 401; this includes every request answered
\* while SERVER_TOKEN is unset.
C3_BearerGate ==
  (hreq # <<>> /\ hreq.path = "/mcp" /\ ~Authorized)
    => /\ ~hresp.rpc.dispatched /\ ~hresp.rpc.executed
       /\ hreq.method # "OPTIONS" => hresp.status = 401

\* C3 as stated: every request to /mcp without the exact header is answered 401.
C3_EveryOtherRequest401 ==
  (hreq # <<>> /\ hreq.path = "/mcp" /\ ~Authorized)
    => /\ ~hresp.rpc.dispatched /\ ~hresp.rpc.executed
       /\ hresp.status = 401

\* a tools/call for a registered tool arrived with a token one character short and got 401
C3_Witness ==
  /\ hreq # <<>> /\ hreq.path = "/mcp" /\ hreq.method = "POST"
  /\ serverToken = Some("s3cr3t") /\ hreq.auth = Some("Bearer s3cr3")
  /\ hreq.body.rpc = "tools/call" /\ hreq.body.name = Some("global_docs_get_file_content")
  /\ hresp.status = 401 /\ ~hresp.rpc.executed

----------------------------------------------------------------------------
(* The GitHub client and the branch allocator (docs/app/tools/github.ts),   *)
(* and the remote repository they talk to.                                  *)

\* an HTTP response: status, status text, body text
Resp(status, text, body) == [status |-> status, text |-> text, body |-> body]

\* response.ok
IsOk(resp) == resp.status >= 200 /\ resp.status <= 299

\* the message of the Error that fetchGitHubAPI, postGitHubAPI and putGitHubAPI throw
ErrorMessage(resp) ==
  "GitHub API error: " \o ToString(resp.status) \o " " \o resp.text \o " - " \o resp.body

\* error.message.includes('404') that never finds it
IsNotFound_Never(resp) == FALSE

\* error.message.includes('404'), on the Error thrown for resp
IsNotFound(resp) == Includes(ErrorMessage(resp), "404")

\* baseName.toLowerCase().replace(/[^a-z0-9]/g, '-')
RECURSIVE Sanitize(_)
Sanitize(s) ==
  IF s = "" THEN ""
  ELSE LET lc == ToLowerCase(CharAt(s, 1))
       IN  (IF lc \in Alnum THEN lc ELSE "-") \o Sanitize(SubSeq(s, 2, Len(s)))

\* generateBranchName of the catalog executors; timestamp and randomSuffix are
\* what the clock and Math.random() gave
generateBranchName(baseName, attemptNo, timestamp, randomSuffix) ==
  LET attemptSuffix == IF attemptNo > 0 THEN "-" \o ToString(attemptNo) ELSE ""
  IN  "update-config-" \o Sanitize(baseName) \o "-" \o timestamp \o "-" \o randomSuffix
        \o attemptSuffix

\* generateBranchName of the single-repository executors
generateBranchNameSingle(baseName, timestamp) ==
  "add-config-" \o Sanitize(baseName) \o "-" \o timestamp

\* filePath.split('/').pop() || 'config'
BaseNameOf(filePath) ==
  LET parts == Split(filePath, "/")
      last  == parts[Len(parts)]
  IN  IF last = "" THEN "config" ELSE last

\* the remote: branches is a set of [name, by], by = 0 for a branch that was
\* there before any call, else the call that created it
BranchNames == {b.name : b \in branches}

OwnersOf(name) == {b.by : b \in {x \in branches : x.name = name}}

\* POST /git/refs for name, answered by the remote as it stands
CreateRefResponse(name) ==
  IF name \in BranchNames
  THEN Resp(422, "Unprocessable Entity", "Reference already exists")
  ELSE Resp(201, "Created", "")

\* a failure the remote may answer to any request, whatever its state
Unavailable == Resp(503, "Service Unavailable", "try again later")

----------------------------------------------------------------------------
(* Add-or-update, one action per GitHub request of a call c. variant tells  *)
(* which executor runs: "catalog" is global_docs_add_or_update_file with    *)
(* createBranchWithRetry, "single" is config_add_file, which creates the    *)
(* branch once.                                                             *)

DefaultMaxAttempts == 3

\* the file both calls are about
FilePath == "docs/app/app.md"

\* the baseName argument the executor passes to createBranchWithRetry
BaseName == BaseNameOf(FilePath)

Timestamps == {"20250101T0000", "20250101T0001"}

RandomSuffixes == {"k3x9ab", "q"}

\* what the clock and Math.random() may give one name generation; the
\* single-repository names carry no random part
StampInputs ==
  IF variant = "single" THEN {[ts |-> t, rnd |-> ""] : t \in Timestamps}
  ELSE {[ts |-> "20250101T0000", rnd |-> r] : r \in RandomSuffixes}

ProbeResponses ==
  {Resp(200, "OK", ""), Resp(404, "Not Found", "Not Found"),
   Resp(500, "Internal Server Error", ""),
   Resp(403, "Forbidden", "rate limit exceeded, retry in 404 s")}

\* a request as logged: the operation, the branch it names, the status answered
Req(op, ref, status) == [op |-> op, ref |-> ref, status |-> status]

Logged(c, r) == log' = [log EXCEPT ![c] = Append(@, r)]

\* Fail with a compensating rollback: a failed write or pull request sends the
\* call back to delete the branch it created
Fail_Rollback(c, kind) ==
  /\ pc' = [pc EXCEPT ![c] = IF kind \in {"writeFailed", "prFailed"} THEN "delete" ELSE "done"]
  /\ outcome' = [outcome EXCEPT ![c] = kind]

\* the call ends in failure; kind tells which Error reached the executor's
\* catch, which turns it into a text result (catalog) or rethrows it (single)
Fail(c, kind) == pc' = [pc EXCEPT ![c] = "done"] /\ outcome' = [outcome EXCEPT ![c] = kind]

\* error.message.includes('Reference already exists') with every failure taken for a collision
IsCollision_Always(resp) == TRUE

\* error.message.includes('Reference already exists')
IsCollision(resp) == Includes(ErrorMessage(resp), "Reference already exists")

\* the loop condition with one turn too many: attempt <= maxAttempts
LoopContinues_OneMore(attemptNo, maxAttempts) == attemptNo <= maxAttempts

\* the loop condition of createBranchWithRetry
LoopContinues(attemptNo, maxAttempts) == attemptNo < maxAttempts

\* attempt === maxAttempts - 1 taken one turn early
IsLastAttempt_OneEarly(attemptNo, maxAttempts) == attemptNo = maxAttempts - 2

\* attempt === maxAttempts - 1
IsLastAttempt(attemptNo, maxAttempts) == attemptNo = maxAttempts - 1

\* step 1: GET contents/<filePath>
Probe(c) ==
  /\ UNCHANGED <<pathVars, gateVars, execVars, remoteVars>>
  /\ pc[c] = "probe"
  /\ \E resp \in ProbeResponses :
       /\ Logged(c, Req("probe", "", resp.status))
       /\ IF IsOk(resp)
          THEN /\ fileExists' = [fileExists EXCEPT ![c] = TRUE]
               /\ existingSha' = [existingSha EXCEPT ![c] = mainHead]
               /\ pc' = [pc EXCEPT ![c] = "ref"]
               /\ UNCHANGED outcome
          ELSE IF IsNotFound(resp)
          THEN /\ pc' = [pc EXCEPT ![c] = "ref"]
               /\ UNCHANGED <<fileExists, existingSha, outcome>>
          ELSE /\ Fail(c, "probeFailed")
               /\ UNCHANGED <<fileExists, existingSha>>
  /\ UNCHANGED <<attempt, branchName, maxAtt, preBranches, tookOver, baseSha>>

\* step 2: GET git/ref/heads/main, then the call of createBranchWithRetry
ReadRef(c) ==
  /\ UNCHANGED <<pathVars, gateVars, execVars, remoteVars>>
  /\ pc[c] = "ref"
  /\ \E resp \in {Resp(200, "OK", ""), Unavailable} :
       /\ Logged(c, Req("ref", "main", resp.status))
       /\ IF IsOk(resp)
          THEN /\ pc' = [pc EXCEPT ![c] = "create"]
               /\ preBranches' = [preBranches EXCEPT ![c] = BranchNames]
               /\ baseSha' = [baseSha EXCEPT ![c] = mainHead]
               /\ UNCHANGED outcome
          ELSE /\ Fail(c, "refFailed")
               /\ UNCHANGED <<preBranches, baseSha>>
  /\ UNCHANGED <<attempt, branchName, maxAtt, fileExists, tookOver, existingSha>>

\* step 3: one turn of the loop of createBranchWithRetry, or the single POST
\* of config_add_file
CreateRef(c) ==
  /\ UNCHANGED <<pathVars, gateVars, execVars>>
  /\ pc[c] = "create"
  /\ IF variant # "single" /\ ~LoopContinues(attempt[c], maxAtt[c])
     THEN \* the loop is over: throw 'Failed to create branch after N attempts'
          /\ Fail(c, "allocationFailed")
          /\ UNCHANGED <<attempt, branchName, log, branches>>
     ELSE \E stamp \in StampInputs :
       LET name == IF variant = "single"
                   THEN generateBranchNameSingle(BaseName, stamp.ts)
                   ELSE generateBranchName(BaseName, attempt[c], stamp.ts, stamp.rnd)
       IN
       \E resp \in {CreateRefResponse(name), Unavailable} :
         /\ Logged(c, Req("create", name, resp.status))
         /\ branchName' = [branchName EXCEPT ![c] = name]
         /\ IF IsOk(resp)
            THEN /\ branches' = branches \cup {[name |-> name, by |-> c]}
                 /\ pc' = [pc EXCEPT ![c] = "write"]
                 /\ UNCHANGED <<attempt, outcome>>
            ELSE IF variant # "single" /\ IsCollision(resp)
            THEN /\ UNCHANGED <<branches, outcome>>
                 /\ IF IsLastAttempt(attempt[c], maxAtt[c])
                    THEN pc' = [pc EXCEPT ![c] = "delete"] /\ UNCHANGED attempt
                    ELSE attempt' = [attempt EXCEPT ![c] = @ + 1] /\ UNCHANGED pc
            ELSE /\ Fail(c, "createFailed")
                 /\ UNCHANGED <<attempt, branches>>
  /\ UNCHANGED <<openPRs, mainHead, maxAtt, fileExists, preBranches, tookOver, existingSha, baseSha>>

\* last attempt of createBranchWithRetry after a collision: DELETE the branch
\* of that name. fetch resolves whatever the status, so only a network failure
\* throws; deleting a branch closes the pull requests opened from it
DeleteRef(c) ==
  /\ UNCHANGED <<pathVars, gateVars, execVars>>
  /\ pc[c] = "delete"
  /\ \E answer \in {"processed", "refused", "network"} :
       LET name == branchName[c]
           gone == answer = "processed" /\ name \in BranchNames
       IN
       /\ Logged(c, Req("delete", name,
                        IF answer = "network" THEN 0 ELSE IF gone THEN 204 ELSE 422))
       /\ branches' = IF gone THEN {b \in branches : b.name # name} ELSE branches
       /\ openPRs' = IF gone THEN {q \in openPRs : q.head # name} ELSE openPRs
       /\ tookOver' = IF gone THEN [tookOver EXCEPT ![c] = @ \cup OwnersOf(name)] ELSE tookOver
       /\ IF answer = "network"
          THEN Fail(c, "allocationFailed")
          ELSE pc' = [pc EXCEPT ![c] = "recreate"] /\ UNCHANGED outcome
  /\ UNCHANGED <<mainHead, attempt, branchName, maxAtt, fileExists, preBranches, existingSha, baseSha>>

\* last attempt of createBranchWithRetry: POST the same name again; any
\* failure is rethrown as 'Failed to create branch after N attempts'
RecreateRef(c) ==
  /\ UNCHANGED <<pathVars, gateVars, execVars>>
  /\ pc[c] = "recreate"
  /\ \E resp \in {CreateRefResponse(branchName[c]), Unavailable} :
       /\ Logged(c, Req("create", branchName[c], resp.status))
       /\ IF IsOk(resp)
          THEN /\ branches' = branches \cup {[name |-> branchName[c], by |-> c]}
               /\ pc' = [pc EXCEPT ![c] = "write"]
               /\ UNCHANGED outcome
          ELSE /\ Fail(c, "allocationFailed")
               /\ UNCHANGED branches
  /\ UNCHANGED <<openPRs, mainHead, attempt, branchName, maxAtt, fileExists, preBranches, tookOver,
               existingSha, baseSha>>

\* the sha sent with the PUT is not the sha of the file on the new branch,
\* which holds the file as of the commit the branch was created from
StaleSha(c) == fileExists[c] /\ existingSha[c] # baseSha[c]

\* step 4: PUT contents/<filePath> on the allocated branch, with sha =
\* existingSha when the probe found the file
WriteFile(c) ==
  /\ UNCHANGED <<pathVars, gateVars, execVars, remoteVars>>
  /\ pc[c] = "write"
  /\ \E resp \in {IF branchName[c] \notin BranchNames THEN Resp(404, "Not Found", "Branch not found")
                  ELSE IF StaleSha(c) THEN Resp(409, "Conflict", "does not match")
                  ELSE Resp(201, "Created", ""), Unavailable} :
       /\ Logged(c, Req("write", branchName[c], resp.status))
       /\ IF IsOk(resp)
          THEN /\ pc' = [pc EXCEPT ![c] = "pr"]
               /\ tookOver' = [tookOver EXCEPT ![c] = @ \cup (OwnersOf(branchName[c]) \ {c})]
               /\ UNCHANGED outcome
          ELSE /\ Fail(c, "writeFailed")
               /\ UNCHANGED tookOver
  /\ UNCHANGED <<attempt, branchName, maxAtt, fileExists, preBranches, existingSha, baseSha>>

\* step 5: POST pulls with head = the allocated branch; the remote refuses a
\* second open pull request from the same head, and a head that is gone
CreatePR(c) ==
  /\ UNCHANGED <<pathVars, gateVars, execVars>>
  /\ pc[c] = "pr"
  /\ \E resp \in {IF branchName[c] \in BranchNames /\ branchName[c] \notin {q.head : q \in openPRs}
                  THEN Resp(201, "Created", "")
                  ELSE Resp(422, "Unprocessable Entity", "Validation Failed"), Unavailable} :
       /\ Logged(c, Req("pr", branchName[c], resp.status))
       /\ IF IsOk(resp)
          THEN /\ openPRs' = openPRs \cup {[head |-> branchName[c], by |-> c]}
               /\ pc' = [pc EXCEPT ![c] = "done"]
               /\ outcome' = [outcome EXCEPT ![c] = "success"]
          ELSE /\ Fail(c, "prFailed")
               /\ UNCHANGED openPRs
  /\ UNCHANGED <<branches, mainHead, attempt, branchName, maxAtt, fileExists, preBranches, tookOver,
               existingSha, baseSha>>

----------------------------------------------------------------------------
(* SpecAlloc: createBranchWithRetry alone, for every attempt budget up to   *)
(* MaxAttemptsBound and every initial set of at most MaxPreexisting         *)
(* branches whose names the generator can produce.                          *)

MaxAttemptsBound == 3

MaxPreexisting == 3

GeneratedNames(budget) ==
  {generateBranchName(BaseName, a, "20250101T0000", r) :
     a \in 0..(budget - 1), r \in RandomSuffixes}

InitialRemotes(budget) ==
  {{[name |-> n, by |-> 0] : n \in N} :
     N \in {M \in SUBSET GeneratedNames(budget) : Cardinality(M) <= MaxPreexisting}}

\* the calls in active stand at position with an empty history, the others are parked
CallsStart(active, position) ==
  /\ pc = [c \in Calls |-> IF c \in active THEN position ELSE "parked"]
  /\ attempt = [c \in Calls |-> 0]
  /\ branchName = [c \in Calls |-> ""]
  /\ fileExists = [c \in Calls |-> FALSE]
  /\ log = [c \in Calls |-> <<>>]
  /\ outcome = [c \in Calls |-> "none"]
  /\ tookOver = [c \in Calls |-> {}]
  /\ existingSha = [c \in Calls |-> NoSha]
  /\ baseSha = [c \in Calls |-> NoSha]

\* no server state takes part; variant only selects the executor
GateIdle(v) ==
  hreq = <<>> /\ hresp = <<>> /\ serverToken = Undefined /\ alive = "none" /\ variant = v

InitAlloc ==
  /\ PathParked /\ ExecParked /\ GateIdle("catalog")
  /\ CallsStart({1}, "create")
  /\ \E budget \in 0..MaxAttemptsBound : maxAtt = [c \in Calls |-> IF c = 1 THEN budget ELSE 0]
  /\ openPRs = {} /\ mainHead = 0
  /\ branches \in InitialRemotes(MaxAttemptsBound)
  /\ preBranches = [c \in Calls |-> IF c = 1 THEN BranchNames ELSE {}]

NextAlloc == \E c \in Calls : CreateRef(c) \/ DeleteRef(c) \/ RecreateRef(c)

SpecAlloc == InitAlloc /\ [][NextAlloc]_vars

----------------------------------------------------------------------------
(* Claims about the branch allocator.                                       *)

\* positions in the log of call c of its create-ref requests
CreatesOf(c) == {i \in 1..Len(log[c]) : log[c][i].op = "create"}

\* those sent at the head of a loop turn (not the one that follows the DELETE)
LoopCreates(c) == {i \in CreatesOf(c) : i = 1 \/ log[c][i - 1].op # "delete"}

NamesAsked(c) == {log[c][i].ref : i \in CreatesOf(c)}

\* C4: a name returned by createBranchWithRetry is not the name of a branch
\* that existed in the remote before the allocation started.
C4_ReturnedNameWasFree ==
  \A c \in Calls : pc[c] = "write" => branchName[c] \notin preBranches[c]

\* C5: when every create-ref request of a finished allocation collided, the
\* allocation failed with the allocation-failed error after exactly maxAttempts
\* turns of the loop, and at most maxAttempts distinct names were asked for.
C5_AllCollide ==
  \A c \in Calls :
    (pc[c] = "done" /\ \A i \in CreatesOf(c) : log[c][i].status = 422)
      => /\ outcome[c] = "allocationFailed"
         /\ Cardinality(LoopCreates(c)) = maxAtt[c]
         /\ Cardinality(NamesAsked(c)) <= maxAtt[c]

\* three turns collided, the DELETE went through unanswered by the remote's
\* state, the fourth POST collided again, and the allocation failed
C5_Witness ==
  /\ pc[1] = "done" /\ maxAtt[1] = 3 /\ outcome[1] = "allocationFailed"
  /\ Cardinality(CreatesOf(1)) = 4 /\ Cardinality(LoopCreates(1)) = 3
  /\ \A i \in CreatesOf(1) : log[1][i].status = 422

\* C6: a create-ref failure that is not a collision is the last request of the
\* allocation, on whatever attempt it happens, and the allocation has failed.
C6_OtherFailureEndsAllocation ==
  \A c \in Calls : \A i \in CreatesOf(c) :
    (log[c][i].status # 201 /\ log[c][i].status # 422)
      => /\ i = Len(log[c])
         /\ pc[c] = "done"
         /\ outcome[c] \in {"createFailed", "allocationFailed"}

\* the second turn's POST was answered 503 after the first had collided
C6_Witness ==
  /\ Len(log[1]) = 2
  /\ log[1][1].op = "create" /\ log[1][1].status = 422
  /\ log[1][2].op = "create" /\ log[1][2].status = 503
  /\ pc[1] = "done" /\ outcome[1] = "createFailed"

----------------------------------------------------------------------------
(* Spec: two add-or-update calls for the same file, their requests          *)
(* interleaved in every order. SpecSolo: one call on its own.               *)

\* remotes in which earlier runs left every name of the first k attempts taken
UsedUpRemotes ==
  {{[name |-> n, by |-> 0] : n \in GeneratedNames(k)} : k \in 0..(DefaultMaxAttempts - 1)}

InitCalls(active, remotes) ==
  /\ PathParked /\ ExecParked
  /\ \E v \in {"catalog", "single"} : GateIdle(v)
  /\ CallsStart(active, "probe")
  /\ maxAtt = [c \in Calls |-> DefaultMaxAttempts]
  /\ openPRs = {} /\ mainHead = 0
  /\ branches \in remotes
  /\ preBranches = [c \in Calls |-> {}]

Init == InitCalls(Calls, UsedUpRemotes)

InitSolo == InitCalls({1}, InitialRemotes(DefaultMaxAttempts))

Next ==
  \E c \in Calls :
    \/ Probe(c) \/ ReadRef(c)
    \/ CreateRef(c) \/ DeleteRef(c) \/ RecreateRef(c)
    \/ WriteFile(c) \/ CreatePR(c)

Spec == Init /\ [][Next]_vars

SpecSolo == InitSolo /\ [][Next]_vars

----------------------------------------------------------------------------
(* Claims about add-or-update.                                              *)

\* the step a request belongs to: probe, ref read, branch create, write, pull request
StepOf(op) ==
  CASE op = "probe" -> 1 [] op = "ref" -> 2 [] op = "create" -> 3 [] op = "delete" -> 3
    [] op = "write" -> 4 [] op = "pr" -> 5

\* the request was answered with success; a 404 to the probe counts as success
Succeeded(r) == (r.status >= 200 /\ r.status <= 299) \/ (r.op = "probe" /\ r.status = 404)

\* C7: the requests of a call go out in the order probe, ref read, branch
\* create, file write, pull-request create; a request of a later step goes out
\* only after the request before it, of the step just before, succeeded; and a
\* call has succeeded only when its last request created the pull request.
C7_StepsInOrder ==
  \A c \in Calls :
    /\ Len(log[c]) > 0 => log[c][1].op = "probe"
    /\ \A i \in 2..Len(log[c]) :
         LET before == log[c][i - 1]
             this   == log[c][i]
         IN  \/ StepOf(this.op) = 3 /\ StepOf(before.op) = 3
             \/ StepOf(this.op) = StepOf(before.op) + 1 /\ Succeeded(before)
    /\ outcome[c] = "success"
         => /\ Len(log[c]) > 0
            /\ log[c][Len(log[c])].op = "pr"
            /\ Succeeded(log[c][Len(log[c])])

\* positions in the log of call c at which the remote created a branch for it
CreatedAt(c) == {i \in CreatesOf(c) : log[c][i].status = 201}

\* C8: when the file write or the pull-request creation fails after the branch
\* was created, the call sends no delete request after that creation and the
\* branch is still in the remote.
C8_NoRollback ==
  \A c \in Calls :
    outcome[c] \in {"writeFailed", "prFailed"}
      => /\ \A i \in CreatedAt(c) : \A j \in (i + 1)..Len(log[c]) : log[c][j].op # "delete"
         /\ branchName[c] \in BranchNames

\* the pull-request creation failed after the write went through; the call
\* ended there and its branch is in the remote
C8_Witness ==
  /\ pc[1] = "done" /\ outcome[1] = "prFailed"
  /\ CreatedAt(1) # {}
  /\ log[1][Len(log[1])].op = "pr" /\ log[1][Len(log[1])].status = 503
  /\ [name |-> branchName[1], by |-> 1] \in branches

\* C9: a call that succeeds has its own branch: neither call deleted or wrote
\* to a branch created by the other, and when both succeed their branch names
\* differ.
C9_IndependentBranches ==
  \A c \in Calls : \A d \in Calls \ {c} :
    outcome[c] = "success"
      => /\ d \notin tookOver[c]
         /\ c \notin tookOver[d]
         /\ outcome[d] = "success" => branchName[c] # branchName[d]

----------------------------------------------------------------------------
(* The catalog-based executors (docs/app/tools/github.ts), one action per   *)
(* request they await.                                                      *)

\* configToGitHubCredentials: the descriptor of the catalog path, or the Error
configToGitHubCredentials(repoPath) == parseGitHubRepoPath(repoPath)

\* the process environment the credentials are read from
Env(token, owner, repo) == [GITHUB_TOKEN |-> token, GITHUB_OWNER |-> owner, GITHUB_REPO |-> repo]

\* getConfiguration: the catalog entry of that name (its github_repo_path), or
\* null; an entry whose github_token is empty counts as not found
getConfiguration(configName, repoPath) ==
  IF configName \notin CatalogNames THEN Undefined
  ELSE IF ~Truthy(env.GITHUB_TOKEN) THEN Undefined
  ELSE Some(repoPath)

\* getGitHubConfig of the single-repository executors
getGitHubConfigSingle ==
  IF ~Truthy(env.GITHUB_TOKEN) THEN Err("GITHUB_TOKEN environment variable is required but not set")
  ELSE IF ~Truthy(env.GITHUB_OWNER) THEN Err("GITHUB_OWNER environment variable is required but not set")
  ELSE IF ~Truthy(env.GITHUB_REPO) THEN Err("GITHUB_REPO environment variable is required but not set")
  ELSE Ok([owner |-> env.GITHUB_OWNER.v, repo |-> env.GITHUB_REPO.v, folder |-> Undefined,
           specificFile |-> Undefined, isFile |-> FALSE])

\* the arguments of a tools/call: config is args.config_name, path is args.path
\* or args.file_path
Args(config, path, name, type, ext) ==
  [config |-> config, path |-> path, name |-> name, type |-> type, ext |-> ext]

\* the credentials the dispatcher hands to a catalog executor, or the Error it answers with
Credentials(a, repoPath) ==
  IF ~Truthy(a.config) THEN Err("Missing required parameter: config_name")
  ELSE LET config == getConfiguration(a.config.v, repoPath) IN
       IF ~config.some THEN Err("Configuration not found: " \o a.config.v)
       ELSE configToGitHubCredentials(config.v)

\* ResolveFilePath with list-contents defaulting to the repository root
ResolveFilePath_ListRoot(t, c, a) ==
  IF t = "config_check_file_exists" THEN Ok(IF a.path.some THEN a.path.v ELSE "undefined")
  ELSE IF t = "global_docs_list_contents"
  THEN LET path == IF Truthy(a.path) THEN a.path.v ELSE "" IN
       IF Truthy(c.folder) /\ path # "" THEN enforceFolderSecurity(path, c.folder) ELSE Ok(path)
  ELSE IF c.isFile /\ Truthy(c.specificFile) THEN Ok(c.specificFile.v)
  ELSE IF Truthy(a.path)
  THEN CASE t = "global_docs_check_file_exists" -> enforceFolderSecurity(a.path.v, c.folder)
         [] t = "global_docs_get_file_content" -> Ok(ensurePathInFolder(a.path.v, c.folder))
         [] OTHER -> IF Truthy(c.folder) THEN Ok(ensurePathInFolder(a.path.v, c.folder))
                     ELSE Ok(a.path.v)
  ELSE Err("No file specified")

\* ResolveFilePath with the caller's file_path taken before the configured file
ResolveFilePath_ArgFirst(t, c, a) ==
  IF t = "config_check_file_exists" THEN Ok(IF a.path.some THEN a.path.v ELSE "undefined")
  ELSE IF t = "global_docs_list_contents"
  THEN LET path == IF Truthy(a.path) THEN a.path.v ELSE "" IN
       IF Truthy(c.folder)
       THEN IF path = "" THEN Ok(c.folder.v) ELSE enforceFolderSecurity(path, c.folder)
       ELSE Ok(path)
  ELSE IF Truthy(a.path)
  THEN CASE t = "global_docs_check_file_exists" -> enforceFolderSecurity(a.path.v, c.folder)
         [] t = "global_docs_get_file_content" -> Ok(ensurePathInFolder(a.path.v, c.folder))
         [] OTHER -> IF Truthy(c.folder) THEN Ok(ensurePathInFolder(a.path.v, c.folder))
                     ELSE Ok(a.path.v)
  ELSE IF c.isFile /\ Truthy(c.specificFile) THEN Ok(c.specificFile.v)
  ELSE Err("No file specified")

\* the path an executor settles on before its first request: filePath of
\* check-exists, get-content and add-or-update, path of list-contents
ResolveFilePath(t, c, a) ==
  IF t = "config_check_file_exists" THEN Ok(IF a.path.some THEN a.path.v ELSE "undefined")
  ELSE IF t = "global_docs_list_contents"
  THEN LET path == IF Truthy(a.path) THEN a.path.v ELSE "" IN
       IF Truthy(c.folder)
       THEN IF path = "" THEN Ok(c.folder.v) ELSE enforceFolderSecurity(path, c.folder)
       ELSE Ok(path)
  ELSE IF c.isFile /\ Truthy(c.specificFile) THEN Ok(c.specificFile.v)
  ELSE IF Truthy(a.path)
  THEN CASE t = "global_docs_check_file_exists" -> enforceFolderSecurity(a.path.v, c.folder)
         [] t = "global_docs_get_file_content" -> Ok(ensurePathInFolder(a.path.v, c.folder))
         [] OTHER -> IF Truthy(c.folder) THEN Ok(ensurePathInFolder(a.path.v, c.folder))
                     ELSE Ok(a.path.v)
  ELSE Err("No file specified")

\* a directory entry of a contents listing
Item(name, type) == [name |-> name, type |-> type]

\* the configDirs predicate of smart add
IsConfigDir(item) ==
  /\ item.type = "dir"
  /\ \/ Includes(ToLowerCase(item.name), "config")
     \/ Includes(ToLowerCase(item.name), "settings")
     \/ Includes(ToLowerCase(item.name), "env")

\* the typeSpecificDirs predicate of smart add
IsTypeDir(item, fileType) ==
  /\ item.type = "dir"
  /\ \/ Includes(ToLowerCase(item.name), ToLowerCase(fileType))
     \/ Includes(ToLowerCase(fileType), ToLowerCase(item.name))

FileTypeOf(a) == IF Truthy(a.type) THEN a.type.v ELSE "general"

FileExtensionOf(a) == IF Truthy(a.ext) THEN a.ext.v ELSE "json"

FolderPrefix(c) == IF Truthy(c.folder) THEN c.folder.v \o "/" ELSE ""

\* SuggestFrom without the break: the loop goes on after a match
SuggestFrom_NoBreak(c, a, dir, dirContents) ==
  LET typeSpecificDirs == SelectSeq(dirContents, LAMBDA it : IsTypeDir(it, FileTypeOf(a)))
      hasSubdirs == \E i \in 1..Len(dirContents) : dirContents[i].type = "dir"
      leaf == a.name \o "." \o FileExtensionOf(a)
  IN  IF Len(typeSpecificDirs) > 0
      THEN [done |-> FALSE,
            path |-> FolderPrefix(c) \o dir.name \o "/" \o typeSpecificDirs[1].name \o "/" \o leaf]
      ELSE IF hasSubdirs
      THEN [done |-> FALSE,
            path |-> FolderPrefix(c) \o dir.name \o "/" \o FileTypeOf(a) \o "/" \o leaf]
      ELSE [done |-> FALSE, path |-> FolderPrefix(c) \o dir.name \o "/" \o leaf]

\* suggestedPath after the listing of candidate dir was read; done tells the loop broke
SuggestFrom(c, a, dir, dirContents) ==
  LET typeSpecificDirs == SelectSeq(dirContents, LAMBDA it : IsTypeDir(it, FileTypeOf(a)))
      hasSubdirs == \E i \in 1..Len(dirContents) : dirContents[i].type = "dir"
      leaf == a.name \o "." \o FileExtensionOf(a)
  IN  IF Len(typeSpecificDirs) > 0
      THEN [done |-> TRUE,
            path |-> FolderPrefix(c) \o dir.name \o "/" \o typeSpecificDirs[1].name \o "/" \o leaf]
      ELSE IF hasSubdirs
      THEN [done |-> FALSE,
            path |-> FolderPrefix(c) \o dir.name \o "/" \o FileTypeOf(a) \o "/" \o leaf]
      ELSE [done |-> FALSE, path |-> FolderPrefix(c) \o dir.name \o "/" \o leaf]

\* a request as the executors send it: method, API, path within the API, status answered
Sent(method, api, path, status) ==
  [method |-> method, api |-> api, path |-> path, status |-> status]

\* what the caller gets: a text tool result, or an Error thrown to the dispatcher
Result(thrown, what, path) == [thrown |-> thrown, what |-> what, path |-> path]

\* the executor's local variables; seen keeps, for each candidate directory
\* the loop of smart add has visited, its name and the listing answered
Locals(path, suggested, dirs, seen, exists, delegated) ==
  [path |-> path, suggested |-> suggested, dirs |-> dirs, seen |-> seen, exists |-> exists,
   delegated |-> delegated]

\* catalog paths: a file, a folder written with a trailing slash, a nested
\* folder, a repository root, a file at the root, a malformed path
CatalogPathInputs ==
  {"ghostmind-dev/docs/docs/app/app.md", "ghostmind-dev/config/config/devcontainer/",
   "ghostmind-dev/features/features/src/settings", "o/r", "o/r/f.md", "o"}

FilePathInputs ==
  {Undefined, Some(""), Some("x.json"), Some("config/devcontainer/x.json"),
   Some("/config/devcontainer/x.json"), Some("config/devcontainer/../../secret.md"),
   Some("config/devcontainer"), Some("features/src")}

\* config_name arguments: none, a catalog name, a name the catalog does not have
ConfigNameInputs == {Undefined, Some("app"), Some("nope")}

\* environments: every variable set, the token unset or empty, the owner unset
EnvInputs ==
  {Env(Some("ghp_t0k3n"), Some("o"), Some("r")), Env(Undefined, Some("o"), Some("r")),
   Env(Some(""), Some("o"), Some("r")), Env(Some("ghp_t0k3n"), Undefined, Some("r"))}

\* the executors called here
ExecTools ==
  (CatalogExecutors \ {"global_docs_list", "global_docs_get_info"}) \cup {"config_check_file_exists"}

ArgInputs(t) ==
  IF t = "global_docs_smart_add_file"
  THEN {Args(cn, Undefined, "eslint", ty, ex) :
          cn \in ConfigNameInputs, ty \in {Undefined, Some("vscode")}, ex \in {Undefined, Some("yaml")}}
  ELSE IF t \in SingleExecutors
  THEN {Args(Undefined, path, "", Undefined, Undefined) : path \in FilePathInputs}
  ELSE {Args(cn, path, "", Undefined, Undefined) : cn \in ConfigNameInputs, path \in FilePathInputs}

\* answers to a GET of a file or directory: found (a file, a directory),
\* not found, and failures, one of which has "404" in its text
FetchResponses ==
  {Resp(200, "OK", "file"), Resp(200, "OK", "dir")} \cup (ProbeResponses \ {Resp(200, "OK", "")})

\* answers to a GET of a directory listing: the items, or a failure
Listing(items) == [ok |-> TRUE, items |-> items]

NoListing == [ok |-> FALSE, items |-> <<>>]

RootListings ==
  {Listing(<<Item("README.md", "file"), Item("src", "dir")>>),
   Listing(<<Item("config", "dir")>>),
   Listing(<<Item("App-Settings", "dir"), Item("env", "dir"), Item("config.json", "file")>>),
   NoListing}

DirListings ==
  {Listing(<<Item("a.json", "file")>>), Listing(<<Item("other", "dir")>>),
   Listing(<<Item("VSCode-user", "dir"), Item("gen", "dir")>>), NoListing}

Send(r) == reqs' = Append(reqs, r)

\* the executor returns or throws
Return(r) == result' = r /\ epc' = "returned"

\* a tools/call reaches an executor: credentials, then the path it will work on
ExecCall ==
  /\ UNCHANGED <<pathVars, gateVars, callVars, remoteVars>>
  /\ epc = "idle"
  /\ UNCHANGED env
  /\ \E t \in ExecTools, repoPath \in CatalogPathInputs :
       \E a \in ArgInputs(t) :
         LET creds == IF t \in SingleExecutors THEN getGitHubConfigSingle
                      ELSE Credentials(a, repoPath)
             r == IF creds.ok THEN ResolveFilePath(t, creds.val, a) ELSE Err("")
         IN
         /\ tool' = t /\ args' = a /\ cfg' = creds /\ reqs' = <<>>
         /\ IF ~creds.ok
            THEN Return(Result(TRUE, creds.err, "")) /\ loc' = <<>>
            ELSE IF t = "global_docs_smart_add_file"
            THEN /\ epc' = "smartRoot" /\ result' = <<>>
                 /\ loc' = Locals("", "", <<>>, <<>>, FALSE, TRUE)
            ELSE IF ~r.ok
            THEN Return(Result(TRUE, r.err, "")) /\ loc' = <<>>
            ELSE /\ epc' = IF t = "global_docs_add_or_update_file" THEN "aouProbe" ELSE "fetch"
                 /\ result' = <<>>
                 /\ loc' = Locals(r.val, "", <<>>, <<>>, FALSE, FALSE)

\* the one GET of list-contents, check-exists and get-content, and their result
Fetch ==
  /\ UNCHANGED <<pathVars, gateVars, callVars, remoteVars>>
  /\ epc = "fetch"
  /\ \E resp \in FetchResponses :
       /\ Send(Sent("GET", "contents", loc.path, resp.status))
       /\ LET what ==
              IF IsOk(resp)
              THEN CASE tool = "global_docs_list_contents" -> "listed"
                     [] tool \in {"global_docs_check_file_exists", "config_check_file_exists"}
                          -> "exists"
                     [] OTHER -> IF resp.body = "file" THEN "content" ELSE "notFile"
              ELSE IF tool # "global_docs_list_contents" /\ IsNotFound(resp)
              THEN "missing"
              ELSE "error"
          IN  \* the catalog executors turn an Error into a text result, the
              \* single-repository ones rethrow it
              Return(Result(tool \in SingleExecutors /\ what = "error", what, loc.path))
  /\ UNCHANGED <<env, tool, cfg, args, loc>>

\* smart add, step 1: list the folder (or the root) and pick the candidate directories
SmartRoot ==
  /\ UNCHANGED <<pathVars, gateVars, callVars, remoteVars>>
  /\ epc = "smartRoot"
  /\ \E rootContents \in RootListings :
       LET c == cfg.val
           analysisPath == IF Truthy(c.folder) THEN c.folder.v ELSE ""
           configDirs == SelectSeq(rootContents.items, IsConfigDir)
       IN
       /\ Send(Sent("GET", "contents", analysisPath, IF rootContents.ok THEN 200 ELSE 503))
       /\ IF ~rootContents.ok
          THEN Return(Result(FALSE, "error", "")) /\ UNCHANGED loc
          ELSE IF Len(configDirs) > 0
          THEN /\ loc' = [loc EXCEPT !.dirs = configDirs]
               /\ epc' = "smartDir" /\ UNCHANGED result
          ELSE /\ loc' = [loc EXCEPT !.suggested =
                            FolderPrefix(c) \o "configs/" \o FileTypeOf(args) \o "/"
                              \o args.name \o "." \o FileExtensionOf(args)]
               /\ epc' = "smartProbe" /\ UNCHANGED result
  /\ UNCHANGED <<env, tool, cfg, args>>

\* smart add, one turn of the loop over the candidate directories
SmartDir ==
  /\ UNCHANGED <<pathVars, gateVars, callVars, remoteVars>>
  /\ epc = "smartDir"
  /\ \E dirContents \in DirListings :
       LET dir == Head(loc.dirs)
           sg == SuggestFrom(cfg.val, args, dir, dirContents.items)
           rest == IF dirContents.ok /\ sg.done THEN <<>> ELSE Tail(loc.dirs)
       IN
       /\ Send(Sent("GET", "contents", FolderPrefix(cfg.val) \o dir.name,
                    IF dirContents.ok THEN 200 ELSE 503))
       /\ loc' = [loc EXCEPT !.dirs = rest,
                             !.seen = Append(@, [dir |-> dir.name, listing |-> dirContents]),
                             !.suggested = IF dirContents.ok THEN sg.path ELSE @]
       /\ epc' = IF rest = <<>> THEN "smartProbe" ELSE "smartDir"
  /\ UNCHANGED <<env, tool, cfg, args, result>>

\* smart add, step 2 and the delegation: GET the suggested path, whatever the
\* answer call add-or-update with file_path = suggestedPath
SmartProbe ==
  /\ UNCHANGED <<pathVars, gateVars, callVars, remoteVars>>
  /\ epc = "smartProbe"
  /\ \E resp \in ProbeResponses :
       LET r == ResolveFilePath("global_docs_add_or_update_file", cfg.val,
                                Args(args.config, Some(loc.suggested), "", Undefined, Undefined))
       IN
       /\ Send(Sent("GET", "contents", loc.suggested, resp.status))
       /\ IF ~r.ok
          THEN Return(Result(FALSE, "error", loc.suggested)) /\ UNCHANGED loc
          ELSE /\ loc' = [loc EXCEPT !.path = r.val]
               /\ epc' = "aouProbe" /\ UNCHANGED result
  /\ UNCHANGED <<env, tool, cfg, args>>

\* add-or-update, step 1: GET contents/<filePath>
AouProbe ==
  /\ UNCHANGED <<pathVars, gateVars, callVars, remoteVars>>
  /\ epc = "aouProbe"
  /\ \E resp \in ProbeResponses :
       /\ Send(Sent("GET", "contents", loc.path, resp.status))
       /\ IF IsOk(resp)
          THEN loc' = [loc EXCEPT !.exists = TRUE] /\ epc' = "aouBranch" /\ UNCHANGED result
          ELSE IF IsNotFound(resp)
          THEN epc' = "aouBranch" /\ UNCHANGED <<loc, result>>
          ELSE Return(Result(FALSE, "error", loc.path)) /\ UNCHANGED loc
  /\ UNCHANGED <<env, tool, cfg, args>>

\* add-or-update, steps 2 and 3: the ref read and createBranchWithRetry, taken
\* as one step that ends with a branch or with a failure
AouBranch ==
  /\ UNCHANGED <<pathVars, gateVars, callVars, remoteVars>>
  /\ epc = "aouBranch"
  /\ \E how \in {"refFailed", "allocationFailed", "allocated"} :
       LET name == generateBranchName(BaseNameOf(loc.path), 0, "20250101T0000", "k3x9ab")
           ref == Sent("GET", "git/ref", "heads/main", IF how = "refFailed" THEN 503 ELSE 200)
           create == Sent("POST", "git/refs", name, IF how = "allocated" THEN 201 ELSE 503)
       IN
       /\ reqs' = IF how = "refFailed" THEN Append(reqs, ref) ELSE reqs \o <<ref, create>>
       /\ IF how = "allocated"
          THEN epc' = "aouWrite" /\ UNCHANGED result
          ELSE Return(Result(FALSE, "error", loc.path))
  /\ UNCHANGED <<env, tool, cfg, args, loc>>

\* add-or-update, step 4: PUT contents/<filePath>
AouWrite ==
  /\ UNCHANGED <<pathVars, gateVars, callVars, remoteVars>>
  /\ epc = "aouWrite"
  /\ \E resp \in {Resp(201, "Created", ""), Unavailable} :
       /\ Send(Sent("PUT", "contents", loc.path, resp.status))
       /\ IF IsOk(resp)
          THEN epc' = "aouPR" /\ UNCHANGED result
          ELSE Return(Result(FALSE, "error", loc.path))
  /\ UNCHANGED <<env, tool, cfg, args, loc>>

\* add-or-update, step 5: POST pulls, and the result
AouPR ==
  /\ UNCHANGED <<pathVars, gateVars, callVars, remoteVars>>
  /\ epc = "aouPR"
  /\ \E resp \in {Resp(201, "Created", ""), Unavailable} :
       /\ Send(Sent("POST", "pulls", "", resp.status))
       /\ Return(Result(FALSE, IF IsOk(resp) THEN "success" ELSE "error", loc.path))
  /\ UNCHANGED <<env, tool, cfg, args, loc>>

\* the result is handed to the dispatcher; the server waits for the next call
ExecReturn ==
  /\ UNCHANGED <<pathVars, gateVars, callVars, remoteVars>>
  /\ epc = "returned"
  /\ tool' = "none" /\ cfg' = <<>> /\ args' = <<>> /\ reqs' = <<>> /\ result' = <<>>
  /\ epc' = "idle" /\ loc' = <<>>
  /\ UNCHANGED env

----------------------------------------------------------------------------
(* SpecExec: the executors called with every configuration and argument of  *)
(* the sets above, the remote answering in every way.                       *)

InitExec ==
  /\ PathParked /\ GateParked /\ CallsParked /\ RemoteParked
  /\ tool = "none" /\ cfg = <<>> /\ args = <<>> /\ reqs = <<>> /\ result = <<>>
  /\ epc = "idle" /\ loc = <<>>
  /\ env \in EnvInputs

NextExec ==
  \/ ExecCall \/ Fetch
  \/ SmartRoot \/ SmartDir \/ SmartProbe
  \/ AouProbe \/ AouBranch \/ AouWrite \/ AouPR
  \/ ExecReturn

SpecExec == InitExec /\ [][NextExec]_vars

\* C1: with a folder F in the resolved descriptor, every GET or PUT of the
\* contents API that an executor sends targets F or a path that starts with F/.
C1_ContentsRequestsInFolder ==
  (epc \notin {"parked", "idle"} /\ cfg.ok /\ Truthy(cfg.val.folder))
    => \A i \in 1..Len(reqs) :
         reqs[i].api = "contents"
           => \/ reqs[i].path = cfg.val.folder.v
              \/ StartsWith(reqs[i].path, cfg.val.folder.v \o "/")

\* the executors that look one file up
CheckExistence == {"global_docs_check_file_exists", "config_check_file_exists"}

\* the status answered to the last request sent
LastStatus == reqs[Len(reqs)].status

\* C17: when the remote answers 404 to check-existence, the tool result is the
\* successful "does not exist" one and no Error is thrown, in the catalog
\* executor and in the single-repository one.
C17_NotFoundIsAResult ==
  (tool \in CheckExistence /\ epc = "returned" /\ Len(reqs) > 0 /\ LastStatus = 404)
    => ~result.thrown /\ result.what = "missing"

\* the single-repository check-existence got a 404 and returned "does not exist"
C17_Witness ==
  /\ tool = "config_check_file_exists" /\ epc = "returned"
  /\ Len(reqs) = 1 /\ reqs[1].status = 404 /\ reqs[1].path = "x.json"
  /\ result = Result(FALSE, "missing", "x.json")

\* a status that is neither 2xx nor 404
OtherFailure(status) == ~(status >= 200 /\ status <= 299) /\ status # 404

\* C18: a response whose status is neither 2xx nor 404 is never taken for "not
\* found", whatever its body: check-existence and get-content report an error,
\* and add-or-update stops at its probe with an error and sends nothing more.
C18_OnlyNotFoundIsNotFound ==
  /\ (/\ tool \in CheckExistence \cup {"global_docs_get_file_content"}
      /\ epc = "returned" /\ Len(reqs) > 0 /\ OtherFailure(LastStatus))
       => result.what = "error"
  /\ (/\ tool = "global_docs_add_or_update_file"
      /\ Len(reqs) > 0 /\ OtherFailure(reqs[1].status))
       => Len(reqs) = 1 /\ epc = "returned" /\ result.what = "error"

\* the failures C19 is about, by the message of the Error
FailsFast(what) ==
  \/ StartsWith(what, "InvalidPath")
  \/ StartsWith(what, "Access denied")
  \/ StartsWith(what, "Configuration not found")
  \/ StartsWith(what, "Missing required parameter")
  \/ Includes(what, "environment variable is required")

\* the call has gone through ExecCall and its path argument is outside the
\* configured folder, in an executor that guards with enforceFolderSecurity
PathDenied ==
  /\ cfg.ok /\ Truthy(cfg.val.folder) /\ Truthy(args.path)
  /\ \/ tool = "global_docs_list_contents"
     \/ tool = "global_docs_check_file_exists" /\ ~cfg.val.isFile
  /\ Unslashed(args.path.v) # Unslashed(cfg.val.folder.v)
  /\ ~StartsWith(Unslashed(args.path.v), Unslashed(cfg.val.folder.v) \o "/")

\* C19: a tools/call that fails with an invalid catalog path, an access-denied
\* path, or an unknown configuration or missing credential has sent no request
\* to GitHub; and a call with an unknown configuration name, no GitHub token,
\* or a path outside the folder does fail that way, at once.
C19_FailsBeforeAnyRequest ==
  epc \notin {"parked", "idle"}
    => /\ (epc = "returned" /\ FailsFast(result.what)) => reqs = <<>>
       /\ (/\ tool \in CatalogExecutors /\ Truthy(args.config)
           /\ (args.config.v \notin CatalogNames \/ ~Truthy(env.GITHUB_TOKEN)))
            => /\ epc = "returned" /\ result.thrown /\ reqs = <<>>
               /\ StartsWith(result.what, "Configuration not found")
       /\ PathDenied
            => /\ epc = "returned" /\ result.thrown /\ reqs = <<>>
               /\ StartsWith(result.what, "Access denied")

\* check-existence was asked for a file outside the configured folder and was
\* denied with nothing sent
C19_Witness ==
  /\ tool = "global_docs_check_file_exists" /\ epc = "returned"
  /\ cfg.ok /\ cfg.val.folder = Some("config/devcontainer") /\ args.path = Some("x.json")
  /\ result.thrown /\ StartsWith(result.what, "Access denied") /\ reqs = <<>>

\* the executors that work on one file of a catalog configuration
FileExecutors ==
  {"global_docs_check_file_exists", "global_docs_get_file_content",
   "global_docs_add_or_update_file"}

\* C20: with a configuration that designates a file, check-existence,
\* get-content and add-or-update work on specificFile whatever file_path the
\* caller gave: every contents request they send is for specificFile; with a
\* folder or repository configuration and no file_path they fail with "No
\* file specified" and send nothing.
C20_ConfiguredFileWins ==
  (tool \in FileExecutors /\ epc \notin {"parked", "idle"} /\ cfg.ok)
    => /\ (cfg.val.isFile /\ Truthy(cfg.val.specificFile))
            => /\ epc # "returned" => loc.path = cfg.val.specificFile.v
               /\ \A i \in 1..Len(reqs) :
                    reqs[i].api = "contents" => reqs[i].path = cfg.val.specificFile.v
               /\ epc = "returned" => ~result.thrown /\ Len(reqs) > 0
       /\ (~cfg.val.isFile /\ ~Truthy(args.path))
            => /\ epc = "returned" /\ result.thrown /\ reqs = <<>>
               /\ StartsWith(result.what, "No file specified")

\* get-content was called with a file_path of its own on a configuration that
\* designates a file, and fetched the configured file
C20_Witness ==
  /\ tool = "global_docs_get_file_content" /\ epc = "returned"
  /\ cfg.ok /\ cfg.val.isFile /\ cfg.val.specificFile = Some("docs/app/app.md")
  /\ args.path = Some("x.json")
  /\ Len(reqs) = 1 /\ reqs[1].path = "docs/app/app.md"
  /\ result = Result(FALSE, "content", "docs/app/app.md")

\* C21: on a configuration with folder F, list-contents without a path (or
\* with an empty one) sends its one request for F; with a path that passes the
\* folder guard it sends it for that path; with any other path it is rejected
\* with access denied and sends nothing.
C21_ListDefaultsToFolder ==
  (/\ tool = "global_docs_list_contents" /\ epc \notin {"parked", "idle"}
   /\ cfg.ok /\ Truthy(cfg.val.folder))
    => LET F == cfg.val.folder.v
           listed == IF ~Truthy(args.path) THEN F ELSE args.path.v
       IN  IF \/ ~Truthy(args.path)
              \/ Unslashed(args.path.v) = Unslashed(F)
              \/ StartsWith(Unslashed(args.path.v), Unslashed(F) \o "/")
           THEN /\ \A i \in 1..Len(reqs) : reqs[i].api = "contents" /\ reqs[i].path = listed
                /\ epc # "returned" => loc.path = listed /\ reqs = <<>>
                /\ epc = "returned" => Len(reqs) = 1 /\ ~result.thrown
           ELSE /\ epc = "returned" /\ reqs = <<>>
                /\ result.thrown /\ StartsWith(result.what, "Access denied")

\* list-contents without a path on the devcontainer folder listed that folder
C21_Witness ==
  /\ tool = "global_docs_list_contents" /\ epc = "returned"
  /\ cfg.ok /\ cfg.val.folder = Some("config/devcontainer") /\ args.path = Undefined
  /\ Len(reqs) = 1 /\ reqs[1].path = "config/devcontainer" /\ reqs[1].status = 200
  /\ result = Result(FALSE, "listed", "config/devcontainer")

\* the file type, extension and folder prefix smart add works with
WantedType == IF Truthy(args.type) THEN args.type.v ELSE "general"

WantedLeaf == args.name \o "." \o (IF Truthy(args.ext) THEN args.ext.v ELSE "json")

WantedPrefix == IF Truthy(cfg.val.folder) THEN cfg.val.folder.v \o "/" ELSE ""

\* the subdirectories of a listing whose name matches the file type, in listing order
MatchingSubdirs(items) ==
  SelectSeq(items, LAMBDA it :
    /\ it.type = "dir"
    /\ \/ Includes(ToLowerCase(it.name), ToLowerCase(WantedType))
       \/ Includes(ToLowerCase(WantedType), ToLowerCase(it.name)))

\* the visited candidates whose listing has a matching subdirectory
SpecificCandidates == {i \in 1..Len(loc.seen) : Len(MatchingSubdirs(loc.seen[i].listing.items)) > 0}

\* C22: when the loop of smart add is over, if some candidate directory listed
\* a subdirectory matching the file type, the suggested path is
\* <candidate>/<first matching subdirectory>/<name>.<ext> for the first such
\* candidate, whatever the other candidates suggested; and if there was no
\* candidate directory it is configs/<type>/<name>.<ext>; both behind the
\* folder restriction when there is one.
C22_MostSpecificPlacement ==
  (tool = "global_docs_smart_add_file" /\ epc = "smartProbe")
    => IF SpecificCandidates # {}
       THEN LET k == CHOOSE i \in SpecificCandidates : \A j \in SpecificCandidates : i <= j
                sub == MatchingSubdirs(loc.seen[k].listing.items)[1]
            IN  loc.suggested =
                  WantedPrefix \o loc.seen[k].dir \o "/" \o sub.name \o "/" \o WantedLeaf
       ELSE loc.seen = <<>>
              => loc.suggested = WantedPrefix \o "configs/" \o WantedType \o "/" \o WantedLeaf

\* the first candidate had only an unrelated subdirectory, the second one a
\* subdirectory for the type: the file goes under the second
C22_Witness ==
  /\ tool = "global_docs_smart_add_file" /\ epc = "smartProbe"
  /\ args.type = Some("vscode") /\ cfg.val.folder = Some("config/devcontainer")
  /\ Len(loc.seen) = 2
  /\ loc.seen[1] = [dir |-> "App-Settings", listing |-> Listing(<<Item("other", "dir")>>)]
  /\ loc.seen[2].dir = "env" /\ SpecificCandidates = {2}
  /\ loc.suggested = "config/devcontainer/env/VSCode-user/eslint.json"

----------------------------------------------------------------------------
(* The listing tools through the dispatcher.                                *)

\* an authorized tools/call for one of the two listing tools reached the catalog dispatcher
ListingCall ==
  /\ variant = "catalog" /\ hreq # <<>>
  /\ hresp.status = 200 /\ hresp.rpc.dispatched
  /\ hreq.body.rpc = "tools/call"
  /\ hreq.body.name \in {Some("global_docs_list"), Some("global_docs_get_info")}

\* C23: through the dispatcher the configuration-listing tool and the get-info
\* tool run whatever config_name holds: absent (the listing is returned) or
\* unknown (get-info answers with a text result); neither call is rejected.
C23_ListingNeedsNoConfigName ==
  ListingCall => hresp.rpc.executed /\ hresp.rpc.code = 0

----------------------------------------------------------------------------
(* How failures reach the caller.                                           *)

\* the executor call ended in a failure, of validation or of a request
ExecFailed ==
  epc = "returned" /\ (result.thrown \/ result.what = "error")

\* C24: every failure of an executor, from validation or from the GitHub
\* client, reaches the caller as a text tool result naming the resolved path;
\* none is an Error thrown to the dispatcher.
C24_FailureIsTextResult ==
  ExecFailed => ~result.thrown

----------------------------------------------------------------------------
(* What smart add reports and what the delegated executor writes.           *)

\* the paths of the file writes sent so far
WrittenPaths ==
  {reqs[i].path : i \in {j \in 1..Len(reqs) : reqs[j].method = "PUT" /\ reqs[j].api = "contents"}}

\* C26: when smart add succeeds, the path written by the delegated add-or-update
\* is the suggested path smart add computed and reports, for every
\* configuration (folder, repository root, single file).
C26_WritesSuggestedPath ==
  (tool = "global_docs_smart_add_file" /\ epc = "returned" /\ result.what = "success")
    => WrittenPaths = {loc.suggested}

----------------------------------------------------------------------------
(* The suggested path of smart add at the existence check.                  *)

\* C29: the suggested path smart add checks for existence and hands to
\* add-or-update is never empty: whenever the run reaches that step, also after
\* failed listings of candidate directories, it ends in <name>.<ext>.
C29_SuggestedPathNeverEmpty ==
  (tool = "global_docs_smart_add_file" /\ epc = "smartProbe")
    => loc.suggested # "" /\ EndsWith(loc.suggested, "/" \o WantedLeaf)

----------------------------------------------------------------------------
(* Termination and request budget of createBranchWithRetry.                 *)

\* every await of createBranchWithRetry is a fetch that resolves or rejects,
\* so a turn that can be taken is taken
SpecAllocFair == SpecAlloc /\ WF_vars(NextAlloc)

\* positions in the log of call c of its DELETE requests
DeletesOf(c) == {i \in 1..Len(log[c]) : log[c][i].op = "delete"}

\* the allocation of call c returned a name or threw
AllocationOver(c) == pc[c] \in {"write", "done"}

\* at most maxAttempts create-ref requests in the loop and one more after the
\* DELETE; at most one DELETE, sent right after the collision of the last turn
AllocationBounded(c) ==
  /\ Cardinality(CreatesOf(c)) <= maxAtt[c] + Cardinality(DeletesOf(c))
  /\ Cardinality(DeletesOf(c)) <= 1
  /\ \A i \in DeletesOf(c) :
       /\ i > 1 /\ log[c][i - 1].op = "create" /\ log[c][i - 1].status = 422
       /\ Cardinality({j \in LoopCreates(c) : j < i}) = maxAtt[c]

\* C28: createBranchWithRetry terminates (returns a name or throws) for every
\* maxAttempts >= 0 and every sequence of remote answers, and sends at most
\* maxAttempts + 1 create-ref requests and at most one DELETE, the DELETE only
\* after a name collision on the last attempt.
C28_TerminatesWithinBudget ==
  /\ [](AllocationBounded(1))
  /\ <>(AllocationOver(1))

\* three turns collided, the DELETE was sent, the fourth POST created the branch
C28_Witness ==
  /\ pc[1] = "write" /\ maxAtt[1] = 3
  /\ Cardinality(CreatesOf(1)) = 4 /\ Cardinality(DeletesOf(1)) = 1
  /\ log[1][Len(log[1])].status = 201

----------------------------------------------------------------------------
(* Where add-or-update writes.                                              *)

\* positions in the log of call c of its file writes
WritesOf(c) == {i \in 1..Len(log[c]) : log[c][i].op = "write"}

\* C27: every file write of add-or-update targets the branch allocated in the
\* same invocation: never the default branch, never a branch that was in the
\* remote before the invocation allocated its own.
C27_WritesOnlyToOwnNewBranch ==
  \A c \in Calls : \A i \in WritesOf(c) :
    /\ log[c][i].ref = branchName[c]
    /\ log[c][i].ref # "main"
    /\ log[c][i].ref \notin preBranches[c]

----------------------------------------------------------------------------
(* SpecRace: one add-or-update call while another writer commits changes of *)
(* the same file to the default branch. The file's blob as of commit k of   *)
(* main is identified with k.                                               *)

MaxRevisions == 2

\* another writer changes the file on the default branch
OtherWriter ==
  /\ UNCHANGED <<pathVars, gateVars, execVars, callVars>>
  /\ mainHead < MaxRevisions
  /\ mainHead' = mainHead + 1
  /\ UNCHANGED <<branches, openPRs>>

InitRace == InitCalls({1}, InitialRemotes(DefaultMaxAttempts))

NextRace == Next \/ OtherWriter

SpecRace == InitRace /\ [][NextRace]_vars

\* C25: in add-or-update on an existing file, the sha sent with the file write
\* is the sha of that file at the commit the new branch was created from,
\* whatever another writer does to the file on the default branch between the
\* existence probe and the ref read.
C25_ShaIsOfBaseCommit ==
  \A c \in Calls :
    (WritesOf(c) # {} /\ fileExists[c]) => existingSha[c] = baseSha[c]

----------------------------------------------------------------------------
(* Content through the encoders.                                            *)

\* C30: content round-trips through the encoders: for every string, characters
\* outside ASCII included, the text get-content decodes from what add-or-update
\* stored for it is that string.
C30_ContentRoundTrips ==
  pfn = "roundTrip" => pres.ok /\ pres.val = parg[1]

====
